---- MODULE Spec2Model ----
(***************************************************************************)
(* Model of the FITS cutout pipeline of ibe: the pixel box solver          *)
(* (cutoutPixelBox, pixcen, search) and the FITS streamer                  *)
(* (stream_subimage and the older streamSubimage).                         *)
(*                                                                         *)
(* Numbers that are doubles in the source (pixel coordinates, sizes,       *)
(* search increments) are held in fixed point, as integers counting        *)
(* quarters: the value 5.5 is the integer 22.  Sky angles are counted in   *)
(* quarter arc seconds.  Byte strings are held as sequences of items, each *)
(* item knowing how many bytes it stands for.                              *)
(***************************************************************************)
EXTENDS Integers, Sequences, FiniteSets, TLC

\* ------------------------------------------------------------------------
\* Program constants
\* ------------------------------------------------------------------------
FITS_CARD_LENGTH == 80
FITS_BLOCK_LENGTH == 2880

\* ------------------------------------------------------------------------
\* Bounds of the model
\* ------------------------------------------------------------------------
\* Longest source file, in HDUs.
MaxHdus == 2
\* pixcen is applied to every multiple of 1/4 from -MaxPix to MaxPix.
MaxPix == 15

\* ------------------------------------------------------------------------
\* Arithmetic helpers
\* ------------------------------------------------------------------------
Abs(x) == IF x < 0 THEN -x ELSE x
Max(a, b) == IF a < b THEN b ELSE a
Min(a, b) == IF b < a THEN b ELSE a

\* std::fmod(x, m) for m > 0: the remainder carries the sign of x.
Fmod(x, m) == IF x >= 0 THEN x % m ELSE -((-x) % m)

\* pixcen(x) = floor(x + 0.5); x in quarters, the result a whole pixel number.
pixcenMutFloor(q) == q \div 4
pixcen(q) == (q + 2) \div 4

\* ------------------------------------------------------------------------
\* Header keywords.  A keyword is the sequence of its characters, so that
\* the code's tests on keyname[i] can be written as they are in the source.
\* ------------------------------------------------------------------------
NUL == "\\0"
kSIMPLE   == <<"S","I","M","P","L","E">>
kXTENSION == <<"X","T","E","N","S","I","O","N">>
kBITPIX   == <<"B","I","T","P","I","X">>
kNAXIS    == <<"N","A","X","I","S">>
kNAXIS1   == <<"N","A","X","I","S","1">>
kNAXIS2   == <<"N","A","X","I","S","2">>
kNAXIS12  == <<"N","A","X","I","S","1","2">>
kEXTEND   == <<"E","X","T","E","N","D">>
kPCOUNT   == <<"P","C","O","U","N","T">>
kGCOUNT   == <<"G","C","O","U","N","T">>
kCRPIX1   == <<"C","R","P","I","X","1">>
kCRPIX2   == <<"C","R","P","I","X","2">>
kCRPIX3   == <<"C","R","P","I","X","3">>
kCRPIX1A  == <<"C","R","P","I","X","1","A">>
kCRPIX2B  == <<"C","R","P","I","X","2","B">>
kCRPIX1AB == <<"C","R","P","I","X","1","A","B">>
kLTV1     == <<"L","T","V","1">>
kLTV2     == <<"L","T","V","2">>
kLTV3     == <<"L","T","V","3">>
kLTV1A    == <<"L","T","V","1","A">>
kCHECKSUM == <<"C","H","E","C","K","S","U","M">>
kDATASUM  == <<"D","A","T","A","S","U","M">>
kCOMMENT  == <<"C","O","M","M","E","N","T">>
kHISTORY  == <<"H","I","S","T","O","R","Y">>
kTFIELDS  == <<"T","F","I","E","L","D","S">>
kEND      == <<"E","N","D">>

\* keyname[i] of a null terminated keyword (i counted from 0).  Positions
\* after the terminator are never decisive in the code's tests: each of
\* them is conjoined with a test on an earlier position that fails there.
CharAt(key, i) == IF i < Len(key) THEN key[i + 1] ELSE NUL

\* strncmp(keyname, prefix, Len(prefix)) == 0
HasPrefix(key, prefix) ==
    /\ Len(key) >= Len(prefix)
    /\ \A i \in 1..Len(prefix) : key[i] = prefix[i]

\* A header card: keyword, numeric value (0 where the card has none), the
\* way its value text was produced ("raw": the bytes of the source card)
\* and, for COMMENT cards, which text it carries.
Card(key, val) == [key |-> key, val |-> val, form |-> "raw"]

\* The two FITS reference comments CFITSIO writes into a primary header are
\* the COMMENT cards with val 1 and 2; any other comment has val 0.
RefComment1 == Card(kCOMMENT, 1)
RefComment2 == Card(kCOMMENT, 2)
EndCard == Card(kEND, 0)

\* ------------------------------------------------------------------------
\* Coordinates and units (Coords.hxx)
\* ------------------------------------------------------------------------
Units == {"PIX", "ARCSEC", "ARCMIN", "DEG", "RAD"}

\* Coords{c[2], units}; c0 and c1 are given in whole units and held in
\* quarters.
Coords(c0, c1, units) == [c |-> <<4 * c0, 4 * c1>>, units |-> units]

\* An angle of n degrees, in quarter arc seconds.
Deg(n) == n * 3600 * 4

\* ------------------------------------------------------------------------
\* Wcs: the wrapper of the WCS library.  The library itself is outside the
\* repository; the model takes the WCS of every image to be a plate of
\* 1 arc second per pixel with reference value (0, 0) at the reference pixel
\* (CRPIX1, CRPIX2), valid strictly within 90 degrees of the reference
\* point (as for a gnomonic projection).
\* ------------------------------------------------------------------------
HasCard(hdr, key) == \E i \in 1..Len(hdr) : hdr[i].key = key
CardVal(hdr, key) == hdr[CHOOSE i \in 1..Len(hdr) : hdr[i].key = key].val

\* Wcs::Wcs(hdr): fails when the header holds no WCS.
WcsInit(hdr) ==
    IF HasCard(hdr, kCRPIX1) /\ HasCard(hdr, kCRPIX2)
    THEN [ok |-> TRUE,
          crpix |-> <<4 * CardVal(hdr, kCRPIX1), 4 * CardVal(hdr, kCRPIX2)>>]
    ELSE [ok |-> FALSE, crpix |-> <<0, 0>>]

\* Longitude difference folded into (-180, 180] degrees.
WrapLon(l) == IF l > Deg(180) THEN l - Deg(360) ELSE l
\* Longitude folded into [0, 360) degrees.
NormLon(l) == l % Deg(360)

\* Return code of the library for a pixel -> sky conversion.
LibP2sRet(wcs, p) ==
    IF Abs(p[1] - wcs.crpix[1]) >= Deg(90) \/ Abs(p[2] - wcs.crpix[2]) >= Deg(90)
    THEN 9 ELSE 0
\* Return code of the library for a sky -> pixel conversion.
LibS2pRet(wcs, sky) ==
    IF Abs(WrapLon(sky[1])) >= Deg(90) \/ Abs(sky[2]) >= Deg(90) THEN 9 ELSE 0

\* Wcs::pixelToSky: BAD_REQUEST on return code 9, INTERNAL_SERVER_ERROR on
\* any other non-zero code.
pixelToSky(wcs, p) ==
    LET ret == LibP2sRet(wcs, p) IN
    IF ret = 9 THEN [code |-> "BAD_REQUEST", msg |-> "Invalid pixel coordinates",
                     v |-> <<0, 0>>]
    ELSE IF ret # 0 THEN [code |-> "INTERNAL_SERVER_ERROR",
                          msg |-> "Failed to convert pixel coordinates to sky coordinates",
                          v |-> <<0, 0>>]
    ELSE [code |-> "OK", msg |-> "",
          v |-> <<NormLon(p[1] - wcs.crpix[1]), p[2] - wcs.crpix[2]>>]

\* Wcs::skyToPixel
skyToPixel(wcs, sky) ==
    LET ret == LibS2pRet(wcs, sky) IN
    IF ret = 9 THEN [code |-> "BAD_REQUEST", msg |-> "Invalid sky coordinates",
                     v |-> <<0, 0>>]
    ELSE IF ret # 0 THEN [code |-> "INTERNAL_SERVER_ERROR",
                          msg |-> "Failed to convert sky coordinates to pixel coordinates",
                          v |-> <<0, 0>>]
    ELSE [code |-> "OK", msg |-> "",
          v |-> <<wcs.crpix[1] + WrapLon(sky[1]), wcs.crpix[2] + sky[2]>>]

\* dist(s2c(a), s2c(b)): angular separation of two sky positions, in quarter
\* arc seconds.  The search only compares positions that differ along one
\* axis of the plate, where the separation is the difference along it.
dist(a, b) == Abs(WrapLon(NormLon(a[1] - b[1]))) + Abs(a[2] - b[2])

\* ------------------------------------------------------------------------
\* search (search.cxx): the angular boundary search.  size2 is twice the
\* size argument of the source (the half width is size2 / 2), so that the
\* comparisons d < size and d > size stay in whole numbers.
\* The loop state is (p, inc, scale); scale is 2 for 2.0 and 1 for 0.5.
\* ------------------------------------------------------------------------
SearchBodyMutKeepScale(wcs, sky, size2, dim, st) ==
    LET s == pixelToSky(wcs, st.p)
        d == dist(sky, s.v)
    IN  IF s.code # "OK" THEN [st EXCEPT !.code = s.code, !.msg = s.msg]
        ELSE IF 2 * d < size2
        THEN LET inc == st.inc * 2
             IN  [st EXCEPT !.scale = 2, !.inc = inc, !.p[dim] = st.p[dim] + inc,
                            !.iter = st.iter + 1]
        ELSE IF 2 * d > size2
        THEN LET inc == st.inc \div 2
             IN  [st EXCEPT !.scale = 1, !.inc = inc, !.p[dim] = st.p[dim] - inc,
                            !.iter = st.iter + 1]
        ELSE [st EXCEPT !.brk = TRUE, !.iter = st.iter + 1]

\* One pass through the body of the while loop.
SearchBody(wcs, sky, size2, dim, st) ==
    LET s == pixelToSky(wcs, st.p)
        d == dist(sky, s.v)
    IN  IF s.code # "OK" THEN [st EXCEPT !.code = s.code, !.msg = s.msg]
        ELSE IF 2 * d < size2
        THEN LET inc == IF st.scale = 2 THEN st.inc * 2 ELSE st.inc \div 2
             IN  [st EXCEPT !.inc = inc, !.p[dim] = st.p[dim] + inc,
                            !.iter = st.iter + 1]
        ELSE IF 2 * d > size2
        THEN LET inc == st.inc \div 2
             IN  [st EXCEPT !.scale = 1, !.inc = inc, !.p[dim] = st.p[dim] - inc,
                            !.iter = st.iter + 1]
        ELSE [st EXCEPT !.brk = TRUE, !.iter = st.iter + 1]

\* while (fabs(inc) >= 1.0 && !isinf(p[0]) && !isinf(p[1]))
SearchGuard(st) == Abs(st.inc) >= 4 /\ ~st.brk /\ st.code = "OK"

RECURSIVE SearchLoop(_, _, _, _, _)
SearchLoop(wcs, sky, size2, dim, st) ==
    IF SearchGuard(st)
    THEN CHOOSE r \in {SearchLoop(wcs, sky, size2, dim, n) :
                          n \in {SearchBody(wcs, sky, size2, dim, st)}} : TRUE
    ELSE st

SearchStartMutNoHalfStep(pix, dim, dir) ==
    [p |-> [pix EXCEPT ![dim] = 4 * pixcen(pix[dim])],
     inc |-> 4 * dir, scale |-> 2, brk |-> FALSE, iter |-> 0,
     code |-> "OK", msg |-> ""]

\* State of the search on entry to the loop; dim is 1 (x) or 2 (y), dir is
\* +1 or -1.
SearchStart(pix, dim, dir) ==
    [p |-> [pix EXCEPT ![dim] = 4 * pixcen(pix[dim]) + 2 * dir],
     inc |-> 4 * dir, scale |-> 2, brk |-> FALSE, iter |-> 0,
     code |-> "OK", msg |-> ""]

search(wcs, sky, pix, size2, dim, dir) ==
    LET st == SearchLoop(wcs, sky, size2, dim, SearchStart(pix, dim, dir))
    IN  [code |-> st.code, msg |-> st.msg, v |-> pixcen(st.p[dim])]

\* Wcs::pixel_to_sky (pixel_to_sky.cxx): no failure is reported.
pixel_to_sky(wcs, p) ==
    <<NormLon(p[1] - wcs.crpix[1]), p[2] - wcs.crpix[2]>>

\* Wcs::sky_to_pixel (sky_to_pixel.cxx): off_scale == 1 (the projection
\* failed) is an INTERNAL_SERVER_ERROR.
sky_to_pixel(wcs, sky) ==
    LET off_scale == IF LibS2pRet(wcs, sky) # 0 THEN 1 ELSE 0 IN
    IF off_scale = 1
    THEN [code |-> "INTERNAL_SERVER_ERROR",
          msg |-> "Failed to convert sky coordinates to pixel coordinates",
          v |-> <<0, 0>>]
    ELSE [code |-> "OK", msg |-> "",
          v |-> <<wcs.crpix[1] + WrapLon(sky[1]), wcs.crpix[2] + sky[2]>>]

\* ------------------------------------------------------------------------
\* cutoutPixelBox (cutoutPixelBox.cxx)
\* ------------------------------------------------------------------------
\* "convert to degrees": the center in quarter arc seconds.
CenterToDegMutFirstOnly(center) ==
    LET f == CASE center.units = "ARCSEC" -> 1
               [] center.units = "ARCMIN" -> 60
               [] center.units = "RAD" -> 206265
               [] OTHER -> 3600
    IN  <<center.c[1] * f, center.c[1] * f>>
CenterToDeg(center) ==
    LET f == CASE center.units = "ARCSEC" -> 1
               [] center.units = "ARCMIN" -> 60
               [] center.units = "RAD" -> 206265
               [] OTHER -> 3600
    IN  <<center.c[1] * f, center.c[2] * f>>

\* ------------------------------------------------------------------------
\* A double as strtod can return it.  "fin" is a number, v counting quarters
\* (of an arc second once converted); "tiny" is a non-zero number of sign v
\* whose magnitude is below half the spacing of the doubles at 360; "inf" is
\* an infinity of sign v; "nan" is not a number.
\* ------------------------------------------------------------------------
Fin(n) == [cls |-> "fin", v |-> n]
Tiny(sign) == [cls |-> "tiny", v |-> sign]
Inf(sign) == [cls |-> "inf", v |-> sign]
NaN == [cls |-> "nan", v |-> 0]
\* d * f and d / f for a finite f > 0 (f is the factor in the model's units)
DScale(d, f) == IF d.cls = "fin" THEN Fin(d.v * f) ELSE d
\* d < x and d > x for a number x
DLess(d, x) ==
    CASE d.cls = "fin" -> d.v < x
      [] d.cls = "tiny" -> IF d.v < 0 THEN 0 <= x ELSE 0 < x
      [] d.cls = "inf" -> d.v < 0
      [] OTHER -> FALSE
DGreater(d, x) ==
    CASE d.cls = "fin" -> d.v > x
      [] d.cls = "tiny" -> IF d.v > 0 THEN 0 >= x ELSE 0 > x
      [] d.cls = "inf" -> d.v > 0
      [] OTHER -> FALSE
\* std::fmod (d, 360.0)
DFmod360(d) ==
    CASE d.cls = "fin" -> Fin(Fmod(d.v, Deg(360)))
      [] d.cls = "tiny" -> d
      [] OTHER -> NaN
\* d + 360.0, rounded to a double
DAdd360(d) ==
    CASE d.cls = "fin" -> Fin(d.v + Deg(360))
      [] d.cls = "tiny" -> Fin(Deg(360))
      [] OTHER -> d

\* fmod(c0, 360), negatives moved up by 360, 360 collapsed to 0.
NormalizeLonD(c0) ==
    LET m == DFmod360(c0) IN
    IF DLess(m, 0)
    THEN (IF DAdd360(m) = Fin(Deg(360)) THEN Fin(0) ELSE DAdd360(m))
    ELSE m
\* The same for a number c0 of quarter arc seconds.
NormalizeLonMutNoWrap(c0) == Fmod(c0, Deg(360))
NormalizeLon(c0) == NormalizeLonD(Fin(c0)).v

\* The size converted to radians, held in quarter arc seconds.
SizeToRad(size) ==
    LET f == CASE size.units = "ARCSEC" -> 1
               [] size.units = "ARCMIN" -> 60
               [] size.units = "DEG" -> 3600
               [] OTHER -> 206265
    IN  <<size.c[1] * f, size.c[2] * f>>

Thrown(code, msg) ==
    [code |-> code, msg |-> msg, ok |-> FALSE, box |-> <<0, 0, 0, 0>>]

\* The box from pixcen, center and size in pixels (quarters).
PixcenBox(c, size) ==
    [xmin |-> pixcen(c[1] - size.c[1] \div 2),
     xmax |-> pixcen(c[1] + size.c[1] \div 2),
     ymin |-> pixcen(c[2] - size.c[2] \div 2),
     ymax |-> pixcen(c[2] + size.c[2] \div 2)]

\* "make sure sub-image overlaps image", then "store pixel-space cutout
\* bounds in box".
ClipBoxMutNoClip(b, naxis) ==
    IF b.xmin > naxis[1] \/ b.ymin > naxis[2] \/ b.xmax < 1 \/ b.ymax < 1
    THEN [code |-> "OK", msg |-> "", ok |-> FALSE, box |-> <<0, 0, 0, 0>>]
    ELSE [code |-> "OK", msg |-> "", ok |-> TRUE,
          box |-> <<b.xmin, b.ymin, b.xmax, b.ymax>>]
ClipBox(b, naxis) ==
    IF b.xmin > naxis[1] \/ b.ymin > naxis[2] \/ b.xmax < 1 \/ b.ymax < 1
    THEN [code |-> "OK", msg |-> "", ok |-> FALSE, box |-> <<0, 0, 0, 0>>]
    ELSE [code |-> "OK", msg |-> "", ok |-> TRUE,
          box |-> <<Max(1, b.xmin), Max(1, b.ymin),
                    Min(naxis[1], b.xmax), Min(naxis[2], b.ymax)>>]

\* The four searches of the sky-size branch.
SearchBox(wcs, sky, pc, size, naxis) ==
    LET r == SizeToRad(size)
        x0 == search(wcs, sky, pc, r[1], 1, -1)
        x1 == search(wcs, sky, pc, r[1], 1, 1)
        y0 == search(wcs, sky, pc, r[2], 2, -1)
        y1 == search(wcs, sky, pc, r[2], 2, 1)
        bad == SelectSeq(<<x0, x1, y0, y1>>, LAMBDA e : e.code # "OK")
    IN  IF bad # <<>> THEN Thrown(bad[1].code, bad[1].msg)
        ELSE ClipBox([xmin |-> x0.v, xmax |-> x1.v, ymin |-> y0.v, ymax |-> y1.v],
                     naxis)

\* The part of cutoutPixelBox after the center is known in both frames.
BoxFromCenter(wcs, sky, pc, size, naxis) ==
    IF size.c[1] < 0 \/ size.c[2] < 0
    THEN Thrown("BAD_REQUEST", "Negative cutout size")
    ELSE IF size.units # "PIX"
    THEN SearchBox(wcs, sky, pc, size, naxis)
    ELSE ClipBox(PixcenBox(pc, size), naxis)

cutoutPixelBox(center, size, hdr, naxis) ==
    IF center.units # "PIX" \/ size.units # "PIX"
    THEN LET wcs == WcsInit(hdr) IN
         IF ~wcs.ok
         THEN Thrown("INTERNAL_SERVER_ERROR", "Failed to extract WCS from FITS header")
         ELSE IF center.units = "PIX"
         THEN BoxFromCenter(wcs, pixel_to_sky(wcs, center.c), center.c, size, naxis)
         ELSE LET deg == CenterToDeg(center) IN
              IF deg[2] < -Deg(90) \/ deg[2] > Deg(90)
              THEN Thrown("BAD_REQUEST",
                          "Center declination out of range [-90, 90] deg")
              ELSE LET sky == <<NormalizeLon(deg[1]), deg[2]>>
                       pc == sky_to_pixel(wcs, sky)
                   IN  IF pc.code # "OK" THEN Thrown(pc.code, pc.msg)
                       ELSE BoxFromCenter(wcs, sky, pc.v, size, naxis)
    ELSE ClipBox(PixcenBox(center.c, size), naxis)

\* ------------------------------------------------------------------------
\* Source files.  An HDU is what CFITSIO reports of it: its type, the image
\* parameters, whether it is a tile-compressed image, its used header cards
\* (without END) and the number of 2880-byte blocks of its data unit.  For
\* a tile-compressed image the cards are those of the converted header that
\* fits_convert_hdr2str returns, a primary array header.
\* ------------------------------------------------------------------------
Hdu(hdutype, bitpix, naxes, naxis, compressed, cards, nblocks) ==
    [hdutype |-> hdutype, bitpix |-> bitpix, naxes |-> naxes, naxis |-> naxis,
     compressed |-> compressed, cards |-> cards, nblocks |-> nblocks]

ImageCards(bitpix, naxis) ==
    <<Card(kSIMPLE, 1), Card(kBITPIX, bitpix), Card(kNAXIS, 2),
      Card(kNAXIS1, naxis[1]), Card(kNAXIS2, naxis[2])>>

\* A 6 x 5 image with a WCS and every keyword the rewrite looks at.
SmallImage(bitpix) ==
    Hdu("IMAGE_HDU", bitpix, 2, <<6, 5>>, FALSE,
        ImageCards(bitpix, <<6, 5>>) \o
        <<Card(kCRPIX1, 3), Card(kCRPIX2, 3), Card(kCRPIX1A, 4), Card(kCRPIX2B, 5),
          Card(kCRPIX3, 7), Card(kCRPIX1AB, 8), Card(kLTV1, 10), Card(kLTV2, 20),
          Card(kLTV3, 30), Card(kLTV1A, 40), Card(kNAXIS12, 9),
          Card(kCHECKSUM, 0), Card(kDATASUM, 0), Card(kCOMMENT, 0)>>, 1)

\* A 4 x 4 tile-compressed image.
CompressedImage(bitpix) ==
    Hdu("IMAGE_HDU", bitpix, 2, <<4, 4>>, TRUE,
        ImageCards(bitpix, <<4, 4>>) \o
        <<Card(kEXTEND, 1), RefComment1, RefComment2, Card(kPCOUNT, 0),
          Card(kGCOUNT, 1), Card(kCRPIX1, 2), Card(kCRPIX2, 2),
          Card(kCOMMENT, 0), Card(kCHECKSUM, 0)>>, 1)

\* A 3 x 2 image of bytes without WCS whose header, END included, is one
\* card longer than a block.
LongHeaderImage ==
    Hdu("IMAGE_HDU", 8, 2, <<3, 2>>, FALSE,
        ImageCards(8, <<3, 2>>) \o [i \in 1..31 |-> Card(kHISTORY, i)], 1)

\* The 100 x 100 image of 16-bit pixels of the spec's scenario S1.
S1Image(bitpix) ==
    Hdu("IMAGE_HDU", bitpix, 2, <<100, 100>>, FALSE,
        ImageCards(bitpix, <<100, 100>>) \o
        <<Card(kCRPIX1, 50), Card(kCRPIX2, 50)>>, 7)

\* A binary table, two data blocks.
BinTable ==
    Hdu("BINARY_TBL", 8, 2, <<8, 3>>, FALSE,
        <<Card(kXTENSION, 0), Card(kBITPIX, 8), Card(kNAXIS, 2), Card(kNAXIS1, 8),
          Card(kNAXIS2, 3), Card(kPCOUNT, 0), Card(kGCOUNT, 1), Card(kTFIELDS, 1),
          Card(kCRPIX1, 3), Card(kCHECKSUM, 0)>>, 2)

\* A primary HDU without data.
EmptyPrimary ==
    Hdu("IMAGE_HDU", 8, 0, <<0, 0>>, FALSE,
        <<Card(kSIMPLE, 1), Card(kBITPIX, 8), Card(kNAXIS, 0), Card(kEXTEND, 1),
          Card(kCRPIX1, 3), Card(kCHECKSUM, 0)>>, 0)

\* A data cube.
Cube ==
    Hdu("IMAGE_HDU", 16, 3, <<2, 2>>, FALSE,
        <<Card(kSIMPLE, 1), Card(kBITPIX, 16), Card(kNAXIS, 3), Card(kNAXIS1, 2),
          Card(kNAXIS2, 2)>>, 1)

\* A 2-D image with an axis of length 0.
FlatImage ==
    Hdu("IMAGE_HDU", 16, 2, <<0, 5>>, FALSE,
        <<Card(kSIMPLE, 1), Card(kBITPIX, 16), Card(kNAXIS, 2), Card(kNAXIS1, 0),
          Card(kNAXIS2, 5), Card(kCRPIX1, 3), Card(kCRPIX2, 3)>>, 0)

HduKinds ==
    {SmallImage(16), SmallImage(32), CompressedImage(-32), CompressedImage(-64),
     LongHeaderImage, BinTable, EmptyPrimary, Cube}

\* Images the streamer has no provision for, besides the cube: an empty
\* axis, and a BITPIX the datatype switch does not know.
OddKinds == {FlatImage, SmallImage(24), CompressedImage(24)}

\* Files of up to MaxHdus HDUs, the single image of S1 (64-bit too), and
\* the files with one of the odd images alone or in second place.
Files ==
    UNION {[1..n -> HduKinds] : n \in 1..MaxHdus}
      \cup {<<S1Image(16)>>, <<S1Image(64)>>}
      \cup {<<u>> : u \in OddKinds}
      \cup {<<h, u>> : h \in HduKinds, u \in OddKinds}

\* The requests: center and size as parse_coords hands them over.
Requests ==
    {<<Coords(3, 3, "PIX"), Coords(3, 3, "PIX")>>,
     <<Coords(50, 50, "PIX"), Coords(11, 11, "PIX")>>,
     <<Coords(1, 1, "PIX"), Coords(4, 2, "PIX")>>,
     <<Coords(6, 5, "PIX"), Coords(2, 0, "PIX")>>,
     <<Coords(4, 3, "PIX"), Coords(2, 2, "PIX")>>,
     <<Coords(3, 3, "PIX"), Coords(-1, 3, "PIX")>>,
     <<Coords(3, 3, "PIX"), Coords(-4, -4, "PIX")>>,
     <<Coords(2, 2, "PIX"), Coords(3, 3, "ARCSEC")>>,
     <<Coords(2, 2, "PIX"), Coords(-3, 3, "ARCSEC")>>,
     <<Coords(1, -1, "ARCSEC"), Coords(2, 4, "PIX")>>,
     <<Coords(0, 0, "DEG"), Coords(1, 1, "ARCMIN")>>,
     <<Coords(-10, 0, "DEG"), Coords(5, 5, "ARCSEC")>>,
     <<Coords(720, 0, "ARCMIN"), Coords(5, 5, "ARCSEC")>>,
     <<Coords(0, 91, "DEG"), Coords(1, 1, "DEG")>>,
     <<Coords(0, -5460, "ARCMIN"), Coords(2, 2, "PIX")>>,
     <<Coords(2, 0, "RAD"), Coords(1, 1, "RAD")>>}

\* ------------------------------------------------------------------------
\* The sink: the sequence of Writer::write calls.  Every item carries the
\* number of the HDU it was written for and its length n in bytes.
\*   card : one 80-byte header card
\*   text : the bytes "END"
\*   fill : n bytes of value ch (32: space, 0: zero)
\*   block: one 2880-byte data block of the source, numbered blk
\*   pix  : pixels; pix holds the FITS linear offset in the source image
\*          of every pixel written (0: a value not read from the source)
\* ------------------------------------------------------------------------
Item(t, hdu, n) ==
    [t |-> t, hdu |-> hdu, n |-> n, card |-> EndCard, ch |-> 0, blk |-> 0,
     pix |-> <<>>]
CardItem(hdu, card) == [Item("card", hdu, FITS_CARD_LENGTH) EXCEPT !.card = card]
FillItem(hdu, ch, n) == [Item("fill", hdu, n) EXCEPT !.ch = ch]
BlockItem(hdu, b) == [Item("block", hdu, FITS_BLOCK_LENGTH) EXCEPT !.blk = b]
PixItem(hdu, pix, n) == [Item("pix", hdu, n) EXCEPT !.pix = pix]

\* Number of bytes to add to num_bytes to reach a block boundary.
PadLenMutShort(num_bytes) ==
    IF num_bytes % FITS_BLOCK_LENGTH # 0
    THEN FITS_CARD_LENGTH - (num_bytes % FITS_CARD_LENGTH)
    ELSE 0
PadLen(num_bytes) ==
    IF num_bytes % FITS_BLOCK_LENGTH # 0
    THEN FITS_BLOCK_LENGTH - (num_bytes % FITS_BLOCK_LENGTH)
    ELSE 0

\* end_header: the items written and the new num_bytes.
end_header(hdu, num_bytes, write_end_card) ==
    LET e == IF write_end_card THEN <<Item("text", hdu, 3)>> ELSE <<>>
        nb == IF write_end_card THEN num_bytes + 3 ELSE num_bytes
        n == PadLen(nb)
    IN  [out |-> e \o (IF n # 0 THEN <<FillItem(hdu, 32, n)>> ELSE <<>>),
         num_bytes |-> nb + n]

\* copy_header: the used cards of the current HDU, then end_header.
copy_header(hdu, h, num_bytes) ==
    LET cards == [k \in 1..Len(h.cards) |-> CardItem(hdu, h.cards[k])]
        e == end_header(hdu, num_bytes + FITS_CARD_LENGTH * Len(h.cards), TRUE)
    IN  [out |-> cards \o e.out, num_bytes |-> e.num_bytes]

\* copy_data: the blocks from data_start to data_end.
copy_data(hdu, h, num_bytes) ==
    [out |-> [b \in 1..h.nblocks |-> BlockItem(hdu, b)],
     num_bytes |-> num_bytes + FITS_BLOCK_LENGTH * h.nblocks]

\* write_card: ffmkky builds a fresh card from keyword and value text.  form
\* is the routine that formatted the value (ffi2c, ffd2e) or, for a value
\* given as a string literal, that literal; val is the number the text
\* denotes (0 for a literal that is not a number).
write_card(hdu, key, val, form) ==
    CardItem(hdu, [key |-> key, val |-> val, form |-> form])

\* ------------------------------------------------------------------------
\* The card loop of stream_subimage
\* ------------------------------------------------------------------------
\* Cards of a converted header that are skipped for a compressed image:
\* EXTEND, the two reference comments, PCOUNT and GCOUNT.
SkippedMutKeepCounts(card) ==
    \/ card.key = kEXTEND
    \/ card = RefComment1
    \/ card = RefComment2
SkippedIfCompressed(card) ==
    \/ card.key = kEXTEND
    \/ card = RefComment1
    \/ card = RefComment2
    \/ card.key = kPCOUNT
    \/ card.key = kGCOUNT

\* "Drop CHECKSUM and DATASUM keywords"
DroppedMutKeepAll(card) == FALSE
Dropped(card) == card.key = kCHECKSUM \/ card.key = kDATASUM

\* The NAXIS / LTV / CRPIX tests on the parsed keyword.  box is
\* <<xmin, ymin, xmax, ymax>>; axis is 0 or 1 as in the source.
IsNaxisN(key) ==
    /\ HasPrefix(key, kNAXIS)
    /\ CharAt(key, 6) = NUL
    /\ CharAt(key, 5) \in {"1", "2"}
IsLtvN(key) ==
    /\ ~HasPrefix(key, kNAXIS)
    /\ HasPrefix(key, <<"L", "T", "V">>)
    /\ CharAt(key, 4) = NUL
    /\ CharAt(key, 3) \in {"1", "2"}
IsCrpixN(key) ==
    /\ ~HasPrefix(key, kNAXIS)
    /\ ~HasPrefix(key, <<"L", "T", "V">>)
    /\ HasPrefix(key, <<"C", "R", "P", "I", "X">>)
    /\ CharAt(key, 5) \in {"1", "2"}
    /\ \/ CharAt(key, 6) = NUL
       \/ /\ CharAt(key, 6) \in {"A", "B", "C", "D", "E", "F", "G", "H", "I", "J",
                                 "K", "L", "M", "N", "O", "P", "Q", "R", "S", "T",
                                 "U", "V", "W", "X", "Y", "Z"}
          /\ CharAt(key, 7) = NUL
\* keyname[i] - '1'
AxisOf(key, i) == IF CharAt(key, i) = "1" THEN 0 ELSE 1

\* What the loop body makes of one parsed card: whether it is rewritten,
\* the new value and the routine formatting it, and found_naxis2.
RewriteMutSwapAxis(card, box) ==
    IF IsNaxisN(card.key)
    THEN LET axis == 1 - AxisOf(card.key, 5) IN
         [modified |-> TRUE, val |-> box[3 + axis] - box[1 + axis] + 1,
          form |-> "ffi2c", found_naxis2 |-> CharAt(card.key, 5) = "2"]
    ELSE IF IsLtvN(card.key)
    THEN LET axis == 1 - AxisOf(card.key, 3) IN
         [modified |-> TRUE, val |-> card.val + (box[1 + axis] - 1),
          form |-> "ffd2e", found_naxis2 |-> FALSE]
    ELSE IF IsCrpixN(card.key)
    THEN LET axis == 1 - AxisOf(card.key, 5) IN
         [modified |-> TRUE, val |-> card.val + (1 - box[1 + axis]),
          form |-> "ffd2e", found_naxis2 |-> FALSE]
    ELSE [modified |-> FALSE, val |-> card.val, form |-> card.form,
          found_naxis2 |-> FALSE]
Rewrite(card, box) ==
    IF IsNaxisN(card.key)
    THEN LET axis == AxisOf(card.key, 5) IN
         [modified |-> TRUE, val |-> box[3 + axis] - box[1 + axis] + 1,
          form |-> "ffi2c", found_naxis2 |-> CharAt(card.key, 5) = "2"]
    ELSE IF IsLtvN(card.key)
    THEN LET axis == AxisOf(card.key, 3) IN
         [modified |-> TRUE, val |-> card.val + (box[1 + axis] - 1),
          form |-> "ffd2e", found_naxis2 |-> FALSE]
    ELSE IF IsCrpixN(card.key)
    THEN LET axis == AxisOf(card.key, 5) IN
         [modified |-> TRUE, val |-> card.val + (1 - box[1 + axis]),
          form |-> "ffd2e", found_naxis2 |-> FALSE]
    ELSE [modified |-> FALSE, val |-> card.val, form |-> card.form,
          found_naxis2 |-> FALSE]

\* The items one pass of the card loop writes for the card at hdr.
CardLoopOut(hdu, card, box, is_compressed_image) ==
    IF is_compressed_image /\ SkippedIfCompressed(card) THEN <<>>
    ELSE IF Dropped(card) THEN <<>>
    ELSE LET r == Rewrite(card, box) IN
         IF r.modified
         THEN <<write_card(hdu, card.key, r.val, r.form)>> \o
              (IF is_compressed_image /\ r.found_naxis2
               THEN <<write_card(hdu, kPCOUNT, 0, "0"),
                      write_card(hdu, kGCOUNT, 1, "1")>>
               ELSE <<>>)
         ELSE <<CardItem(hdu, card)>>

\* Sum of the lengths of a sequence of items.
RECURSIVE BytesUpTo(_, _)
BytesUpTo(items, i) ==
    IF i = 0 THEN 0 ELSE items[i].n + BytesUpTo(items, i - 1)
Bytes(items) == BytesUpTo(items, Len(items))

\* ------------------------------------------------------------------------
\* write_subimage
\* ------------------------------------------------------------------------
ValidBitpix == {8, 16, 32, -32, 64, -64}

\* The size_t products that give buf_size wrap at 2^64: a negative factor
\* times a positive one is beyond any allocation and std::malloc returns
\* null; two negative factors give the product of their magnitudes.
RowAllocFails(box) == box[3] - box[1] + 1 < 0
RowBufSize(box, bitpix) == (box[3] - box[1] + 1) * (Abs(bitpix) \div 8)
RegionAllocFails(box) ==
    LET w == box[3] - box[1] + 1
        h == box[4] - box[2] + 1
    IN  w # 0 /\ h # 0 /\ ((w < 0) # (h < 0))
RegionBufSize(box, bitpix) ==
    Abs(box[3] - box[1] + 1) * Abs(box[4] - box[2] + 1) * (Abs(bitpix) \div 8)

\* fits_read_img(f, datatype, firstpix, nelem, ...): nelem consecutive
\* pixels from the linear offset firstpix.
fits_read_imgMutOffByOne(firstpix, nelem) == [i \in 1..nelem |-> firstpix + i]
fits_read_img(firstpix, nelem) == [i \in 1..nelem |-> firstpix + i - 1]

\* fits_read_compressed_img(f, datatype, fpixel, lpixel, inc = {1, 1}, ...):
\* the rectangle fpixel..lpixel, x running fastest.
fits_read_compressed_img(naxis, box) ==
    LET w == box[3] - box[1] + 1
        h == box[4] - box[2] + 1
    IN  [i \in 1..(w * h) |->
           (box[1] + ((i - 1) % w)) + naxis[1] * (box[2] + ((i - 1) \div w) - 1)]

\* ------------------------------------------------------------------------
\* State
\* ------------------------------------------------------------------------
VARIABLES
    variant,    \* which streamer serves the request
    file,       \* the source file: its HDUs
    center,     \* cutout center
    size,       \* cutout size
    pc,         \* position in the streamer
    hdunum,     \* number of the current HDU
    num_bytes,  \* bytes written so far
    sink,       \* the writer: every write in order
    box,        \* <<xmin, ymin, xmax, ymax>> of the current image HDU
    hpos,       \* hdr: index of the card hdr points at
    nkeys,      \* cards the card loop goes over
    k,          \* card loop counter
    y,          \* row loop counter
    firstpix,   \* linear offset of the first pixel of row y
    boxes,      \* history: the box handed to write_subimage, per HDU
    err,        \* the HttpException thrown, if any
    arg,        \* the arguments of a function that is run on its own
    ret         \* its locals and its result

vars == <<variant, file, center, size, pc, hdunum, num_bytes, sink, box, hpos,
          nkeys, k, y, firstpix, boxes, err, arg, ret>>

NoErr == [code |-> "OK", msg |-> ""]
NoBox == <<0, 0, 0, 0>>

\* fits_convert_hdr2str: the cards of the header, END included.
Hdr(h) == h.cards \o <<EndCard>>

HasCompressed(f) == \E i \in 1..Len(f) : f[i].compressed

Init ==
    /\ variant \in {"stream_subimage", "streamSubimage"}
    /\ file \in Files
    /\ variant = "streamSubimage" => ~HasCompressed(file)
    /\ \E r \in Requests : center = r[1] /\ size = r[2]
    /\ pc = "movabs"
    /\ hdunum = 1
    /\ num_bytes = 0
    /\ sink = <<>>
    /\ box = NoBox
    /\ hpos = 1
    /\ nkeys = 0
    /\ k = 0
    /\ y = 0
    /\ firstpix = 0
    /\ boxes = <<>>
    /\ err = NoErr
    /\ arg = <<>>
    /\ ret = <<>>

cur == file[hdunum]
New == variant = "stream_subimage"

Throw(code, msg) ==
    /\ pc' = "error"
    /\ err' = [code |-> code, msg |-> msg]

\* fits_movabs_hdu reports END_OF_FILE: all HDUs are done.
EndOfFile ==
    /\ pc = "movabs"
    /\ hdunum > Len(file)
    /\ pc' = "done"
    /\ UNCHANGED <<arg, ret, variant, file, center, size, hdunum, num_bytes, sink, box,
                   hpos, nkeys, k, y, firstpix, boxes, err>>

\* hdutype != IMAGE_HDU: copy the header, copy the data.
CopyHduMutDataFirst ==
    /\ New /\ pc = "movabs" /\ hdunum <= Len(file)
    /\ cur.hdutype # "IMAGE_HDU"
    /\ LET h == copy_header(hdunum, cur, num_bytes)
           d == copy_data(hdunum, cur, h.num_bytes)
       IN  /\ sink' = sink \o d.out \o h.out
           /\ num_bytes' = d.num_bytes
    /\ hdunum' = hdunum + 1
    /\ UNCHANGED <<arg, ret, variant, file, center, size, pc, box, hpos, nkeys, k, y,
                   firstpix, boxes, err>>
CopyHdu ==
    /\ New /\ pc = "movabs" /\ hdunum <= Len(file)
    /\ cur.hdutype # "IMAGE_HDU"
    /\ LET h == copy_header(hdunum, cur, num_bytes)
           d == copy_data(hdunum, cur, h.num_bytes)
       IN  /\ sink' = sink \o h.out \o d.out
           /\ num_bytes' = d.num_bytes
    /\ hdunum' = hdunum + 1
    /\ UNCHANGED <<arg, ret, variant, file, center, size, pc, box, hpos, nkeys, k, y,
                   firstpix, boxes, err>>

\* naxes == 0: "No data - just copy the header."
CopyEmptyImage ==
    /\ New /\ pc = "movabs" /\ hdunum <= Len(file)
    /\ cur.hdutype = "IMAGE_HDU" /\ cur.naxes = 0
    /\ LET h == copy_header(hdunum, cur, num_bytes)
       IN  /\ sink' = sink \o h.out
           /\ num_bytes' = h.num_bytes
    /\ hdunum' = hdunum + 1
    /\ UNCHANGED <<arg, ret, variant, file, center, size, pc, box, hpos, nkeys, k, y,
                   firstpix, boxes, err>>

\* naxes != 2 || naxis[0] <= 0 || naxis[1] <= 0
RejectImage ==
    /\ New /\ pc = "movabs" /\ hdunum <= Len(file)
    /\ cur.hdutype = "IMAGE_HDU" /\ cur.naxes # 0
    /\ cur.naxes # 2 \/ cur.naxis[1] <= 0 \/ cur.naxis[2] <= 0
    /\ Throw("INTERNAL_SERVER_ERROR", "FITS file contains image HDU with NAXIS != 2")
    /\ UNCHANGED <<arg, ret, variant, file, center, size, hdunum, num_bytes, sink, box,
                   hpos, nkeys, k, y, firstpix, boxes>>

\* A 2-D image: read the header, compute the box and, for a compressed
\* image, replace the SIMPLE card by an XTENSION card.
BeginCutout ==
    /\ New /\ pc = "movabs" /\ hdunum <= Len(file)
    /\ cur.hdutype = "IMAGE_HDU" /\ cur.naxes = 2
    /\ cur.naxis[1] > 0 /\ cur.naxis[2] > 0
    /\ \E r \in {cutoutPixelBox(center, size, Hdr(cur), cur.naxis)} :
       IF r.code # "OK"
       THEN /\ Throw(r.code, r.msg)
            /\ UNCHANGED <<num_bytes, sink, box, hpos, nkeys, k>>
       ELSE IF ~r.ok
       THEN /\ Throw("INTERNAL_SERVER_ERROR", "Cutout does not overlap image")
            /\ UNCHANGED <<num_bytes, sink, box, hpos, nkeys, k>>
       ELSE /\ box' = r.box
            /\ k' = 0
            /\ pc' = "cards"
            /\ err' = err
            /\ IF cur.compressed
               THEN /\ sink' = Append(sink, write_card(hdunum, kXTENSION, 0, "'IMAGE   '"))
                    /\ num_bytes' = num_bytes + FITS_CARD_LENGTH
                    /\ hpos' = 2
                    /\ nkeys' = Len(Hdr(cur)) - 1
               ELSE /\ hpos' = 1
                    /\ nkeys' = Len(Hdr(cur))
                    /\ UNCHANGED <<sink, num_bytes>>
    /\ UNCHANGED <<arg, ret, variant, file, center, size, hdunum, y, firstpix, boxes>>

\* One pass of the card loop.
CopyCard ==
    /\ pc = "cards" /\ k < nkeys
    /\ LET out == CardLoopOut(hdunum, Hdr(cur)[hpos], box, cur.compressed) IN
       /\ sink' = sink \o out
       /\ num_bytes' = num_bytes + FITS_CARD_LENGTH * Len(out)
    /\ k' = k + 1
    /\ hpos' = hpos + 1
    /\ UNCHANGED <<arg, ret, variant, file, center, size, pc, hdunum, box, nkeys, y,
                   firstpix, boxes, err>>

\* After the card loop: end_header(writer, num_bytes, false).
EndHeader ==
    /\ pc = "cards" /\ k = nkeys
    /\ LET e == end_header(hdunum, num_bytes, FALSE) IN
       /\ sink' = sink \o e.out
       /\ num_bytes' = e.num_bytes
    /\ pc' = "write_subimage"
    /\ UNCHANGED <<arg, ret, variant, file, center, size, hdunum, box, hpos, nkeys, k, y,
                   firstpix, boxes, err>>

BeginSubimageMutNoSwitch ==
    /\ pc = "write_subimage"
    /\ boxes' = Append(boxes, [hdu |-> hdunum, box |-> box])
    /\ IF ~cur.compressed
       THEN IF RowAllocFails(box)
            THEN /\ Throw("INTERNAL_SERVER_ERROR", "Memory allocation failed")
                 /\ UNCHANGED <<y, firstpix>>
            ELSE /\ firstpix' = box[1] + cur.naxis[1] * (box[2] - 1)
                 /\ y' = box[2]
                 /\ pc' = "rows"
                 /\ err' = err
       ELSE /\ pc' = "region"
            /\ err' = err
            /\ UNCHANGED <<y, firstpix>>
    /\ UNCHANGED <<arg, ret, variant, file, center, size, hdunum, num_bytes, sink, box,
                   hpos, nkeys, k>>

\* write_subimage up to the first read: the datatype switch and, for an
\* image that is not compressed, the row buffer.
BeginSubimage ==
    /\ pc = "write_subimage"
    /\ boxes' = Append(boxes, [hdu |-> hdunum, box |-> box])
    /\ IF cur.bitpix \notin ValidBitpix
       THEN /\ Throw("INTERNAL_SERVER_ERROR", "Invalid BITPIX value in image HDU")
            /\ UNCHANGED <<y, firstpix>>
       ELSE IF ~cur.compressed
       THEN IF RowAllocFails(box)
            THEN /\ Throw("INTERNAL_SERVER_ERROR", "Memory allocation failed")
                 /\ UNCHANGED <<y, firstpix>>
            ELSE /\ firstpix' = box[1] + cur.naxis[1] * (box[2] - 1)
                 /\ y' = box[2]
                 /\ pc' = "rows"
                 /\ err' = err
       ELSE /\ pc' = "region"
            /\ err' = err
            /\ UNCHANGED <<y, firstpix>>
    /\ UNCHANGED <<arg, ret, variant, file, center, size, hdunum, num_bytes, sink, box,
                   hpos, nkeys, k>>

\* One row: read, swap, write.
ReadRow ==
    /\ pc = "rows" /\ y <= box[4]
    /\ LET nelem == box[3] - box[1] + 1
           buf_size == RowBufSize(box, cur.bitpix)
       IN  /\ sink' = Append(sink, PixItem(hdunum, fits_read_img(firstpix, nelem),
                                           buf_size))
           /\ num_bytes' = num_bytes + buf_size
    /\ y' = y + 1
    /\ firstpix' = firstpix + cur.naxis[1]
    /\ UNCHANGED <<arg, ret, variant, file, center, size, pc, hdunum, box, hpos, nkeys, k,
                   boxes, err>>

\* The whole region of a compressed image in one read.  With a box that is
\* not xmin <= xmax and ymin <= ymax the buffer does not have the size of
\* the region the library is asked for: the call then either reports an
\* error or leaves pixels in the buffer that are not those of the region.
ReadRegion ==
    /\ pc = "region"
    /\ LET buf_size == RegionBufSize(box, cur.bitpix)
           bpp == Abs(cur.bitpix) \div 8
       IN
       IF RegionAllocFails(box)
       THEN /\ Throw("INTERNAL_SERVER_ERROR", "Memory allocation failed")
            /\ UNCHANGED <<sink, num_bytes>>
       ELSE IF box[1] <= box[3] /\ box[2] <= box[4]
       THEN /\ sink' = Append(sink, PixItem(hdunum,
                                 fits_read_compressed_img(cur.naxis, box), buf_size))
            /\ num_bytes' = num_bytes + buf_size
            /\ pc' = "pad"
            /\ err' = err
       ELSE \/ /\ Throw("INTERNAL_SERVER_ERROR", "CFITSIO error")
               /\ UNCHANGED <<sink, num_bytes>>
            \/ /\ sink' = Append(sink, PixItem(hdunum,
                                    [i \in 1..(buf_size \div bpp) |-> 0], buf_size))
               /\ num_bytes' = num_bytes + buf_size
               /\ pc' = "pad"
               /\ err' = err
    /\ UNCHANGED <<arg, ret, variant, file, center, size, hdunum, box, hpos, nkeys, k, y,
                   firstpix, boxes>>

\* "write out zeros so the output HDU is a multiple of the block size",
\* then on to the next HDU.
PadSubimage ==
    /\ \/ pc = "rows" /\ y > box[4]
       \/ pc = "pad"
    /\ LET n == PadLen(num_bytes) IN
       /\ sink' = sink \o (IF n # 0 THEN <<FillItem(hdunum, 0, n)>> ELSE <<>>)
       /\ num_bytes' = num_bytes + n
    /\ hdunum' = hdunum + 1
    /\ pc' = "movabs"
    /\ UNCHANGED <<arg, ret, variant, file, center, size, box, hpos, nkeys, k, y,
                   firstpix, boxes, err>>

\* ------------------------------------------------------------------------
\* streamSubimage (streamSubImage.cxx), the older streamer: one pass of its
\* HDU loop.  It has no provision for HDUs that are not images.
\* ------------------------------------------------------------------------
\* The key loop, k = 1 .. nkeys + 1 (the END record included).
LegacyCards(hdu, h, b) ==
    LET hdr == Hdr(h) IN
    [i \in 1..Len(hdr) |->
        LET r == Rewrite(hdr[i], b) IN
        IF h.naxes # 0 /\ r.modified
        THEN write_card(hdu, hdr[i].key, r.val, r.form)
        ELSE CardItem(hdu, hdr[i])]

\* The row loop; the BITPIX switch sits inside it.
LegacyRows(hdu, h, b) ==
    LET rowsz == b[3] - b[1] + 1
        bufsz == (rowsz * Abs(h.bitpix)) \div 8
    IN  [j \in 1..(b[4] - b[2] + 1) |->
            PixItem(hdu, fits_read_img(b[1] + h.naxis[1] * (b[2] + j - 2), rowsz),
                    bufsz)]

\* items, followed by the fill that brings nb + Bytes(items) to a block
\* boundary.
Padded(items, hdu, nb, ch) ==
    items \o (IF PadLen(nb + Bytes(items)) # 0
              THEN <<FillItem(hdu, ch, PadLen(nb + Bytes(items)))>>
              ELSE <<>>)

Outcome(code, msg, out, b) == [code |-> code, msg |-> msg, out |-> out, box |-> b]

\* The pass from the key loop on: head is the padded header.
LegacyFromHeader(hdu, h, b, nb, head) ==
    IF h.naxes = 0
    THEN Outcome("OK", "", head, b)
    ELSE IF RowAllocFails(b)
    THEN Outcome("INTERNAL_SERVER_ERROR", "Memory allocation failed", head, b)
    ELSE IF b[2] <= b[4] /\ h.bitpix \notin ValidBitpix
    THEN Outcome("INTERNAL_SERVER_ERROR", "Invalid BITPIX value in image HDU", head, b)
    ELSE Outcome("OK", "", head \o Padded(LegacyRows(hdu, h, b), hdu, nb + Bytes(head), 0), b)

\* The pass once cutoutPixelBox has returned r.
LegacyFromBox(hdu, h, nb, r) ==
    IF r.code # "OK"
    THEN Outcome(r.code, r.msg, <<>>, NoBox)
    ELSE IF ~r.ok
    THEN Outcome("INTERNAL_SERVER_ERROR", "Cutout does not overlap image", <<>>, NoBox)
    ELSE LegacyFromHeader(hdu, h, r.box, nb,
                          Padded(LegacyCards(hdu, h, r.box), hdu, nb, 32))

\* Outcome of the pass: the exception thrown (code "OK": none), the items
\* written before it and the box.
LegacyPass(hdu, h, c, sz, nb) ==
    IF h.hdutype # "IMAGE_HDU"
    THEN Outcome("INTERNAL_SERVER_ERROR", "FITS file contains non-image HDU",
                 <<>>, NoBox)
    ELSE IF h.naxes # 0 /\ (h.naxes # 2 \/ h.naxis[1] <= 0 \/ h.naxis[2] <= 0)
    THEN Outcome("INTERNAL_SERVER_ERROR",
                 "FITS file contains image HDU with NAXIS != 2", <<>>, NoBox)
    ELSE LegacyFromBox(hdu, h, nb,
                       IF h.naxes # 0 THEN cutoutPixelBox(c, sz, Hdr(h), h.naxis)
                       ELSE [code |-> "OK", msg |-> "", ok |-> TRUE, box |-> NoBox])

LegacyHdu ==
    /\ ~New /\ pc = "movabs" /\ hdunum <= Len(file)
    /\ \E r \in {LegacyPass(hdunum, cur, center, size, num_bytes)} :
       /\ sink' = sink \o r.out
       /\ num_bytes' = num_bytes + Bytes(r.out)
       /\ box' = r.box
       /\ boxes' = IF cur.naxes # 0 /\ r.box # NoBox
                   THEN Append(boxes, [hdu |-> hdunum, box |-> r.box])
                   ELSE boxes
       /\ IF r.code # "OK"
          THEN Throw(r.code, r.msg) /\ hdunum' = hdunum
          ELSE pc' = pc /\ err' = err /\ hdunum' = hdunum + 1
    /\ UNCHANGED <<arg, ret, variant, file, center, size, hpos, nkeys, k, y, firstpix>>

Next ==
    \/ EndOfFile
    \/ CopyHdu
    \/ CopyEmptyImage
    \/ RejectImage
    \/ BeginCutout
    \/ CopyCard
    \/ EndHeader
    \/ BeginSubimage
    \/ ReadRow
    \/ ReadRegion
    \/ PadSubimage
    \/ LegacyHdu

Spec == Init /\ [][Next]_vars

\* ------------------------------------------------------------------------
\* Reading the sink
\* ------------------------------------------------------------------------
\* What was written for HDU h.
HduItems(h) == SelectSeq(sink, LAMBDA it : it.hdu = h)
\* The items that make up a header: cards, END and space fill.
IsHeaderItem(it) == it.t \in {"card", "text"} \/ (it.t = "fill" /\ it.ch = 32)
IsDataItem(it) == it.t \in {"pix", "block"}
HeaderItems(h) == SelectSeq(sink, LAMBDA it : it.hdu = h /\ IsHeaderItem(it))
\* The header cards written for HDU h, in order.
CardsWritten(h) ==
    LET c == SelectSeq(sink, LAMBDA it : it.hdu = h /\ it.t = "card")
    IN  [i \in 1..Len(c) |-> c[i].card]
\* The pixel writes for HDU h, in order, and all their pixels in one row.
PixWrites(h) == SelectSeq(sink, LAMBDA it : it.hdu = h /\ it.t = "pix")
RECURSIVE Flatten(_, _)
Flatten(items, i) ==
    IF i = 0 THEN <<>> ELSE Flatten(items, i - 1) \o items[i].pix
PixelsWritten(h) == Flatten(PixWrites(h), Len(PixWrites(h)))

\* HDU h has been written completely.
HduDone(h) == h \in 1..Len(file) /\ (hdunum > h \/ pc = "done")
\* HDU h is a 2-D image, the kind that is cut.
IsCut(h) == file[h].hdutype = "IMAGE_HDU" /\ file[h].naxes = 2
\* The box HDU h was cut with.
BoxOf(h) == boxes[CHOOSE i \in 1..Len(boxes) : boxes[i].hdu = h].box
Width(b) == b[3] - b[1] + 1
Height(b) == b[4] - b[2] + 1
CountKey(seq, key) == Cardinality({i \in 1..Len(seq) : seq[i].key = key})
UpperCase == {"A", "B", "C", "D", "E", "F", "G", "H", "I", "J", "K", "L", "M",
              "N", "O", "P", "Q", "R", "S", "T", "U", "V", "W", "X", "Y", "Z"}
\* CRPIXn and CRPIXn[A-Z]
CrpixKeys(n) == {<<"C", "R", "P", "I", "X", n>>} \cup
                {<<"C", "R", "P", "I", "X", n, l>> : l \in UpperCase}
RewrittenKeys ==
    {kNAXIS1, kNAXIS2, kLTV1, kLTV2} \cup CrpixKeys("1") \cup CrpixKeys("2")
\* The source card of HDU h with the keyword key.
SourceCard(h, key) ==
    Hdr(file[h])[CHOOSE i \in 1..Len(Hdr(file[h])) : Hdr(file[h])[i].key = key]

\* ------------------------------------------------------------------------
\* C1: after stream_subimage has processed a file, the bytes written for
\* every HDU are a positive multiple of 2880, the header part of every HDU
\* is a multiple of 2880 too, and every data unit starts on a block boundary.
\* ------------------------------------------------------------------------
C1_Alignment ==
    (New /\ pc = "done") =>
        /\ \A h \in 1..Len(file) :
            /\ Bytes(HduItems(h)) > 0
            /\ Bytes(HduItems(h)) % 2880 = 0
            /\ Bytes(HeaderItems(h)) % 2880 = 0
        /\ \A i \in 2..Len(sink) :
            (IsDataItem(sink[i]) /\ IsHeaderItem(sink[i - 1]))
                => BytesUpTo(sink, i - 1) % 2880 = 0

\* A file with a header longer than one block, pixels that do not fill a
\* block and a table has been streamed.
C1_Witness ==
    /\ New /\ pc = "done"
    /\ \E h \in 1..Len(file) : Bytes(HeaderItems(h)) = 2 * 2880
    /\ \E i \in 1..Len(sink) : sink[i].t = "pix" /\ sink[i].n % 2880 # 0
    /\ \E i \in 1..Len(sink) : sink[i].t = "block"

\* ------------------------------------------------------------------------
\* C2: whenever cutoutPixelBox returns true the stored box satisfies
\* 1 <= xmin <= xmax <= NAXIS1 and 1 <= ymin <= ymax <= NAXIS2.
\* (pc = "cards" is the state right after cutoutPixelBox has returned true.)
\* ------------------------------------------------------------------------
C2_BoxInsideImage ==
    (pc = "cards") =>
        /\ 1 <= box[1] /\ box[1] <= box[3] /\ box[3] <= cur.naxis[1]
        /\ 1 <= box[2] /\ box[2] <= box[4] /\ box[4] <= cur.naxis[2]

\* ------------------------------------------------------------------------
\* C3: the pixel payload of a cut image HDU is rows ymin..ymax in ascending
\* order, each holding source pixels xmin..xmax: output pixel (i, j) is
\* source pixel (xmin - 1 + i, ymin - 1 + j), at linear offset
\* x + NAXIS1 * (y - 1); the whole-region read of a compressed image gives
\* the same sequence as the row-by-row read.  Stated for every box with
\* xmin <= xmax and ymin <= ymax, and for the row-by-row read with any box.
\* ------------------------------------------------------------------------
C3_Payload ==
    \A h \in 1..Len(file) :
        (HduDone(h) /\ IsCut(h)) =>
            LET b == BoxOf(h)
                w == IF Width(b) > 0 THEN Width(b) ELSE 0
                n == IF Height(b) > 0 THEN Height(b) ELSE 0
                px == PixelsWritten(h)
            IN  (~file[h].compressed \/ (Width(b) > 0 /\ Height(b) > 0)) =>
                    /\ Len(px) = w * n
                    /\ \A i \in 1..w : \A j \in 1..n :
                        px[(j - 1) * w + i] =
                            (b[1] - 1 + i) + file[h].naxis[1] * (b[2] - 1 + j - 1)

\* A file with a compressed and an uncompressed image has been cut, each
\* to at least 2 x 2 pixels, and one of them away from the first column.
C3_Witness ==
    /\ pc = "done"
    /\ \E h \in 1..Len(file) : IsCut(h) /\ file[h].compressed
                               /\ Width(BoxOf(h)) >= 2 /\ Height(BoxOf(h)) >= 2
                               /\ Len(PixelsWritten(h)) >= 4
    /\ \E h \in 1..Len(file) : IsCut(h) /\ ~file[h].compressed
                               /\ Width(BoxOf(h)) >= 2 /\ Height(BoxOf(h)) >= 2
                               /\ BoxOf(h)[1] > 1
                               /\ Len(PixWrites(h)) >= 2

\* The value of the card with the keyword key among those written for h.
WrittenVal(h, key) ==
    LET c == CardsWritten(h)
    IN  c[CHOOSE i \in 1..Len(c) : c[i].key = key].val

\* ------------------------------------------------------------------------
\* C4: the rewritten NAXIS1 is xmax - xmin + 1 and the rewritten NAXIS2 is
\* ymax - ymin + 1 of the box used for the payload, so the declared
\* dimensions are positive and equal the pixels per row and the rows emitted.
\* ------------------------------------------------------------------------
C4_DeclaredDimensions ==
    \A h \in 1..Len(file) :
        (New /\ HduDone(h) /\ IsCut(h)) =>
            /\ WrittenVal(h, kNAXIS1) = Width(BoxOf(h))
            /\ WrittenVal(h, kNAXIS2) = Height(BoxOf(h))
            /\ WrittenVal(h, kNAXIS1) > 0
            /\ WrittenVal(h, kNAXIS2) > 0
            /\ Len(PixelsWritten(h)) =
                   WrittenVal(h, kNAXIS1) * WrittenVal(h, kNAXIS2)

\* ------------------------------------------------------------------------
\* C5: a card CRPIXn or CRPIXn[A-Z] with n in {1, 2} is written with
\* old + (1 - box.min_n), a card LTVn with old + (box.min_n - 1); a card
\* with another axis digit or a longer suffix is written as it was read.
\* ------------------------------------------------------------------------
C5_Shifts ==
    \A h \in 1..Len(file) :
        (HduDone(h) /\ IsCut(h)) =>
            LET c == CardsWritten(h)
                b == BoxOf(h)
            IN  \A i \in 1..Len(c) :
                    /\ c[i].key \in CrpixKeys("1") =>
                           c[i].val = SourceCard(h, c[i].key).val + (1 - b[1])
                    /\ c[i].key \in CrpixKeys("2") =>
                           c[i].val = SourceCard(h, c[i].key).val + (1 - b[2])
                    /\ c[i].key = kLTV1 =>
                           c[i].val = SourceCard(h, kLTV1).val + (b[1] - 1)
                    /\ c[i].key = kLTV2 =>
                           c[i].val = SourceCard(h, kLTV2).val + (b[2] - 1)
                    /\ c[i].key \in {kCRPIX3, kCRPIX1AB, kLTV3, kLTV1A} =>
                           c[i] = SourceCard(h, c[i].key)

\* An image carrying all these cards has been cut with xmin, ymin and 1
\* all different.
C5_Witness ==
    \E h \in 1..Len(file) :
        /\ New /\ HduDone(h) /\ IsCut(h)
        /\ BoxOf(h)[1] > 1 /\ BoxOf(h)[2] > 1 /\ BoxOf(h)[1] # BoxOf(h)[2]
        /\ Width(BoxOf(h)) > 0 /\ Height(BoxOf(h)) > 0
        /\ \A key \in {kCRPIX1, kCRPIX2, kCRPIX1A, kCRPIX2B, kLTV1, kLTV2,
                       kCRPIX3, kCRPIX1AB, kLTV3, kLTV1A} :
               \E i \in 1..Len(CardsWritten(h)) : CardsWritten(h)[i].key = key
        /\ WrittenVal(h, kCRPIX1A) # SourceCard(h, kCRPIX1A).val
        /\ WrittenVal(h, kLTV2) # SourceCard(h, kLTV2).val

\* ------------------------------------------------------------------------
\* C6: for a non-compressed 2-D image stream_subimage writes the source
\* cards in source order with exactly CHECKSUM and DATASUM removed: a card
\* that is not rewritten is identical to its source card, a rewritten one
\* keeps its keyword and place, nothing is added, duplicated or reordered,
\* and the header has exactly one END card, its last.
\* ------------------------------------------------------------------------
C6_HeaderFrame ==
    \A h \in 1..Len(file) :
        (New /\ HduDone(h) /\ IsCut(h) /\ ~file[h].compressed) =>
            LET c == CardsWritten(h)
                kept == SelectSeq(Hdr(file[h]),
                                  LAMBDA s : s.key \notin {kCHECKSUM, kDATASUM})
            IN  /\ Len(c) = Len(kept)
                /\ \A i \in 1..Len(c) :
                       /\ c[i].key = kept[i].key
                       /\ c[i].key \notin RewrittenKeys => c[i] = kept[i]
                /\ CountKey(c, kEND) = 1
                /\ c[Len(c)].key = kEND

\* A non-compressed image whose header holds CHECKSUM, DATASUM, rewritten
\* and untouched cards has been streamed by stream_subimage.
C6_Witness ==
    \E h \in 1..Len(file) :
        /\ New /\ HduDone(h) /\ IsCut(h) /\ ~file[h].compressed
        /\ \E i \in 1..Len(file[h].cards) : file[h].cards[i].key = kCHECKSUM
        /\ \E i \in 1..Len(file[h].cards) : file[h].cards[i].key = kDATASUM
        /\ \E i \in 1..Len(CardsWritten(h)) :
               CardsWritten(h)[i].key = kCRPIX1 /\ CardsWritten(h)[i].form # "raw"
        /\ \E i \in 1..Len(CardsWritten(h)) : CardsWritten(h)[i].key = kCOMMENT
        /\ Len(CardsWritten(h)) = Len(file[h].cards) + 1 - 2

\* ------------------------------------------------------------------------
\* C7: for a compressed image the written header starts with the card
\* XTENSION= 'IMAGE   ' in place of SIMPLE, holds exactly one PCOUNT = 0
\* card directly followed by exactly one GCOUNT = 1 card right after the
\* rewritten NAXIS2 card, and holds no EXTEND card, no PCOUNT or GCOUNT card
\* of the source and neither of the two reference COMMENT cards.
\* ------------------------------------------------------------------------
C7_CompressedHeader ==
    \A h \in 1..Len(file) :
        (HduDone(h) /\ IsCut(h) /\ file[h].compressed) =>
            LET c == CardsWritten(h)
            IN  /\ c[1].key = kXTENSION /\ c[1].form = "'IMAGE   '"
                /\ CountKey(c, kXTENSION) = 1
                /\ CountKey(c, kSIMPLE) = 0
                /\ CountKey(c, kPCOUNT) = 1
                /\ CountKey(c, kGCOUNT) = 1
                /\ CountKey(c, kNAXIS2) = 1
                /\ \E i \in 1..(Len(c) - 2) :
                       /\ c[i].key = kNAXIS2 /\ c[i].val = Height(BoxOf(h))
                       /\ c[i + 1].key = kPCOUNT /\ c[i + 1].val = 0
                       /\ c[i + 1].form # "raw"
                       /\ c[i + 2].key = kGCOUNT /\ c[i + 2].val = 1
                       /\ c[i + 2].form # "raw"
                /\ CountKey(c, kEXTEND) = 0
                /\ \A i \in 1..Len(c) : c[i] # RefComment1 /\ c[i] # RefComment2

\* A compressed image whose source header holds EXTEND, PCOUNT, GCOUNT and
\* both reference comments has been streamed, and an ordinary COMMENT card
\* of it was kept.
C7_Witness ==
    \E h \in 1..Len(file) :
        /\ HduDone(h) /\ IsCut(h) /\ file[h].compressed
        /\ Width(BoxOf(h)) > 0 /\ Height(BoxOf(h)) > 0
        /\ \A card \in {RefComment1, RefComment2} :
               \E i \in 1..Len(file[h].cards) : file[h].cards[i] = card
        /\ \A key \in {kEXTEND, kPCOUNT, kGCOUNT} :
               \E i \in 1..Len(file[h].cards) : file[h].cards[i].key = key
        /\ \E i \in 1..Len(CardsWritten(h)) : CardsWritten(h)[i].key = kCOMMENT

\* ------------------------------------------------------------------------
\* C8: an HDU that is not an image, and an image HDU with NAXIS = 0, is
\* never rejected and never altered: what is written for it is its header
\* cards in order, an END card, space fill up to a multiple of 2880 bytes
\* and, for a non-image HDU, its data blocks as they are.
\* ------------------------------------------------------------------------
C8_PassThrough ==
    /\ \A h \in 1..Len(file) :
        (HduDone(h) /\ (file[h].hdutype # "IMAGE_HDU" \/ file[h].naxes = 0)) =>
            LET n == Len(file[h].cards)
                nb == IF file[h].hdutype # "IMAGE_HDU" THEN file[h].nblocks ELSE 0
                \* END and the space fill are the bytes from the last card
                \* to the next multiple of 2880
                rest == 2880 - ((80 * n) % 2880)
                data == SelectSeq(HduItems(h), IsDataItem)
            IN  /\ SelectSeq(CardsWritten(h), LAMBDA c : c.key # kEND)
                       = file[h].cards
                /\ Bytes(HeaderItems(h)) = 80 * n + rest
                /\ Len(HduItems(h)) = Len(HeaderItems(h)) + nb
                /\ Len(data) = nb
                /\ \A j \in 1..nb : data[j].t = "block" /\ data[j].blk = j
    /\ ~(/\ pc = "error"
         /\ hdunum \in 1..Len(file)
         /\ (file[hdunum].hdutype # "IMAGE_HDU" \/ file[hdunum].naxes = 0))

\* ------------------------------------------------------------------------
\* C9: output is written HDU by HDU in source order: nothing of an HDU is
\* written before everything of the HDU before it; within an HDU the header
\* cards come before the data, and the rows of an image come in ascending
\* order of y; a request that succeeds has written one HDU per source HDU.
\* ------------------------------------------------------------------------
C9_Order ==
    /\ \A i \in 1..Len(sink) : \A j \in (i + 1)..Len(sink) :
            /\ sink[i].hdu <= sink[j].hdu
            /\ sink[i].hdu = sink[j].hdu =>
                   ~(IsDataItem(sink[i]) /\ sink[j].t = "card")
            /\ (sink[i].hdu = sink[j].hdu /\ sink[i].t = "pix" /\ sink[j].t = "pix"
                /\ sink[i].pix # <<>> /\ sink[j].pix # <<>>
                /\ ~file[sink[i].hdu].compressed) =>
                   sink[i].pix[1] < sink[j].pix[1]
    /\ \A i \in 1..Len(sink) : sink[i].hdu \in 1..Len(file)
    /\ pc = "done" => {sink[i].hdu : i \in 1..Len(sink)} = 1..Len(file)

\* A file of two HDUs, a table and an image cut to several rows, has been
\* streamed to its end.
C9_Witness ==
    /\ pc = "done" /\ Len(file) = 2
    /\ \E i \in 1..Len(sink) : sink[i].t = "block"
    /\ \E h \in 1..Len(file) : IsCut(h) /\ Len(PixWrites(h)) >= 3
                               /\ PixWrites(h)[1].pix # <<>>

\* ------------------------------------------------------------------------
\* C10 as the specification words it: with center and size in pixels, an
\* integer center c and an odd size s whose box c - (s-1)/2 .. c + (s-1)/2
\* lies inside the image, the box is symmetric about c and spans s pixels
\* on each axis.
\* ------------------------------------------------------------------------
IsPixelRequest ==
    /\ center.units = "PIX" /\ size.units = "PIX"
    /\ \A a \in 1..2 : center.c[a] % 4 = 0 /\ size.c[a] % 8 = 4 /\ size.c[a] > 0
C10_SymmetricBox ==
    (pc = "cards" /\ IsPixelRequest) =>
        \A a \in 1..2 :
            LET c == center.c[a] \div 4
                s == size.c[a] \div 4
            IN  (1 <= c - (s - 1) \div 2 /\ c + (s - 1) \div 2 <= cur.naxis[a]) =>
                    /\ box[a] = c - (s - 1) \div 2
                    /\ box[a + 2] = c + (s - 1) \div 2
                    /\ box[a + 2] - box[a] + 1 = s

\* C10 as the code has it: under the same conditions the box runs from
\* c - (s-1)/2 to c + (s+1)/2 cut off at NAXIS, so that where
\* c + (s+1)/2 <= NAXIS it spans s + 1 pixels and reaches one pixel further
\* above c than below it; center 50,50 and size 11,11 on a 100 x 100 image
\* give the box (45, 45, 56, 56) and NAXIS1 = NAXIS2 = 12.
C10_BoxOfOddSize ==
    (pc = "cards" /\ IsPixelRequest) =>
        /\ \A a \in 1..2 :
            LET c == center.c[a] \div 4
                s == size.c[a] \div 4
            IN  (1 <= c - (s - 1) \div 2 /\ c + (s - 1) \div 2 <= cur.naxis[a]) =>
                    /\ box[a] = c - (s - 1) \div 2
                    /\ box[a + 2] = IF c + (s + 1) \div 2 <= cur.naxis[a]
                                    THEN c + (s + 1) \div 2 ELSE cur.naxis[a]
                    /\ c + (s + 1) \div 2 <= cur.naxis[a] =>
                           box[a + 2] - box[a] + 1 = s + 1
        /\ (cur.naxis = <<100, 100>> /\ center.c = <<200, 200>>
            /\ size.c = <<44, 44>>) => box = <<45, 45, 56, 56>>

\* The request center 50,50 size 11,11 in pixels on the 100 x 100 image has
\* got its box.
C10_Witness ==
    /\ pc = "cards" /\ IsPixelRequest
    /\ cur.naxis = <<100, 100>>
    /\ center.c = <<200, 200>> /\ size.c = <<44, 44>>
    /\ box = <<45, 45, 56, 56>>

\* ------------------------------------------------------------------------
\* cutoutPixelBox up to the overlap test: xmin, xmax, ymin, ymax as they are
\* when line 126 is reached, or the exception thrown before it.
\* ------------------------------------------------------------------------
UnclippedFromCenter(wcs, sky, pc_, size_) ==
    IF size_.c[1] < 0 \/ size_.c[2] < 0
    THEN [code |-> "BAD_REQUEST", msg |-> "Negative cutout size",
          b |-> PixcenBox(pc_, size_)]
    ELSE IF size_.units # "PIX"
    THEN LET r == SizeToRad(size_)
             x0 == search(wcs, sky, pc_, r[1], 1, -1)
             x1 == search(wcs, sky, pc_, r[1], 1, 1)
             y0 == search(wcs, sky, pc_, r[2], 2, -1)
             y1 == search(wcs, sky, pc_, r[2], 2, 1)
             bad == SelectSeq(<<x0, x1, y0, y1>>, LAMBDA e : e.code # "OK")
         IN  [code |-> IF bad # <<>> THEN bad[1].code ELSE "OK",
              msg |-> IF bad # <<>> THEN bad[1].msg ELSE "",
              b |-> [xmin |-> x0.v, xmax |-> x1.v, ymin |-> y0.v, ymax |-> y1.v]]
    ELSE [code |-> "OK", msg |-> "", b |-> PixcenBox(pc_, size_)]
UnclippedBox(center_, size_, hdr) ==
    IF center_.units # "PIX" \/ size_.units # "PIX"
    THEN LET wcs == WcsInit(hdr)
             deg == CenterToDeg(center_)
             sky == <<NormalizeLon(deg[1]), deg[2]>>
             p == sky_to_pixel(wcs, sky)
         IN  IF ~wcs.ok
             THEN [code |-> "INTERNAL_SERVER_ERROR",
                   msg |-> "Failed to extract WCS from FITS header",
                   b |-> PixcenBox(center_.c, size_)]
             ELSE IF center_.units = "PIX"
             THEN UnclippedFromCenter(wcs, pixel_to_sky(wcs, center_.c),
                                      center_.c, size_)
             ELSE IF deg[2] < -Deg(90) \/ deg[2] > Deg(90)
             THEN [code |-> "BAD_REQUEST",
                   msg |-> "Center declination out of range [-90, 90] deg",
                   b |-> PixcenBox(center_.c, size_)]
             ELSE IF p.code # "OK"
             THEN [code |-> p.code, msg |-> p.msg, b |-> PixcenBox(center_.c, size_)]
             ELSE UnclippedFromCenter(wcs, sky, p.v, size_)
    ELSE [code |-> "OK", msg |-> "", b |-> PixcenBox(center_.c, size_)]

\* ------------------------------------------------------------------------
\* C11: cutoutPixelBox returns false exactly when the unclipped box has
\* xmin > NAXIS1 or ymin > NAXIS2 or xmax < 1 or ymax < 1, and otherwise
\* returns the unclipped box cut to [1, NAXIS1] x [1, NAXIS2]; when it
\* returns false stream_subimage fails with INTERNAL_SERVER_ERROR "Cutout
\* does not overlap image" and the sink gets nothing more.
\* ------------------------------------------------------------------------
Outside(b, naxis) ==
    b.xmin > naxis[1] \/ b.ymin > naxis[2] \/ b.xmax < 1 \/ b.ymax < 1
NoOverlapError ==
    pc = "error" /\ err.msg = "Cutout does not overlap image"
C11_State ==
    (New /\ hdunum \in 1..Len(file) /\ IsCut(hdunum)
         /\ cur.naxis[1] >= 1 /\ cur.naxis[2] >= 1) =>
        LET u == UnclippedBox(center, size, Hdr(cur))
            n == cur.naxis
        IN  /\ pc = "cards" =>
                /\ u.code = "OK" /\ ~Outside(u.b, n)
                /\ box[1] = (IF u.b.xmin > 1 THEN u.b.xmin ELSE 1)
                /\ box[2] = (IF u.b.ymin > 1 THEN u.b.ymin ELSE 1)
                /\ box[3] = (IF u.b.xmax < n[1] THEN u.b.xmax ELSE n[1])
                /\ box[4] = (IF u.b.ymax < n[2] THEN u.b.ymax ELSE n[2])
            /\ NoOverlapError =>
                /\ err.code = "INTERNAL_SERVER_ERROR"
                /\ u.code = "OK" /\ Outside(u.b, n)
            /\ (pc = "error" /\ u.code = "OK" /\ Outside(u.b, n)) => NoOverlapError
C11_Step ==
    /\ pc = "error" => sink' = sink /\ pc' = "error"
    /\ (pc' = "error" /\ err'.msg = "Cutout does not overlap image") =>
           sink' = sink
C11_NoOverlap == [](C11_State) /\ [][C11_Step]_vars

\* The second HDU of a file is an image that the box misses: the request
\* has failed after the first HDU was written.
C11_Witness ==
    /\ New /\ NoOverlapError /\ hdunum = 2 /\ sink # <<>>
    /\ size.c[1] > 0 /\ size.c[2] > 0
    /\ Outside(UnclippedBox(center, size, Hdr(cur)).b, cur.naxis)

\* ------------------------------------------------------------------------
\* The center is in sky units and its second component, in degrees, is
\* outside [-90, 90].  (center.c counts quarters of the unit; a radian is
\* taken as 206265 arc seconds.)
\* ------------------------------------------------------------------------
BadDeclination ==
    /\ center.units # "PIX"
    /\ LET arcsec == CASE center.units = "ARCSEC" -> center.c[2]
                       [] center.units = "ARCMIN" -> center.c[2] * 60
                       [] center.units = "DEG" -> center.c[2] * 3600
                       [] center.units = "RAD" -> center.c[2] * 206265
       IN  arcsec < -(90 * 3600 * 4) \/ arcsec > 90 * 3600 * 4
\* The request has produced part of a cutout.
CutoutStarted ==
    \/ pc \in {"cards", "write_subimage", "rows", "region", "pad"}
    \/ \E i \in 1..Len(sink) : sink[i].t = "pix"
    \/ boxes # <<>>

\* C12 as the specification words it: every request with such a center
\* fails with BAD_REQUEST, whatever the source file and the size.
C12_AlwaysBadRequest ==
    (New /\ BadDeclination) =>
        /\ pc # "done"
        /\ pc = "error" => err.code = "BAD_REQUEST"

\* C12 as the code has it: no cutout is produced from such a center, and
\* the request fails with BAD_REQUEST "Center declination out of range
\* [-90, 90] deg" when stream_subimage comes to a 2-D image HDU whose header
\* holds a WCS; it fails with INTERNAL_SERVER_ERROR at a 2-D image HDU
\* without a WCS, and a file without any HDU that is cut is copied with
\* success.
C12_BadDeclination ==
    BadDeclination =>
        /\ ~CutoutStarted
        /\ (New /\ pc = "error" /\ IsCut(hdunum)
            /\ cur.naxis[1] > 0 /\ cur.naxis[2] > 0) =>
               IF HasCard(cur.cards, kCRPIX1) /\ HasCard(cur.cards, kCRPIX2)
               THEN /\ err.code = "BAD_REQUEST"
                    /\ err.msg = "Center declination out of range [-90, 90] deg"
               ELSE err.code = "INTERNAL_SERVER_ERROR"
        /\ (New /\ pc = "done") =>
               \A h \in 1..Len(file) :
                   file[h].hdutype # "IMAGE_HDU" \/ file[h].naxes = 0

\* A request with declination 91 degrees has failed at the second HDU of a
\* file, an image with a WCS, after the first HDU was copied.
C12_Witness ==
    /\ New /\ BadDeclination /\ pc = "error" /\ hdunum = 2 /\ sink # <<>>
    /\ IsCut(2) /\ HasCard(cur.cards, kCRPIX1)
    /\ err.code = "BAD_REQUEST"

\* ------------------------------------------------------------------------
\* C13: a request with a negative size component fails with BAD_REQUEST
\* "Negative cutout size" whatever the units of center and size, both in
\* pixels included, so that no box is ever computed from a negative size.
\* (The failure is looked at where cutoutPixelBox gets as far as the size:
\* at a 2-D image HDU with a WCS and a center of valid declination.)
\* ------------------------------------------------------------------------
C13_NegativeSizeRejected ==
    (New /\ (size.c[1] < 0 \/ size.c[2] < 0)) =>
        /\ ~CutoutStarted
        /\ (pc = "error" /\ IsCut(hdunum)
            /\ cur.naxis[1] > 0 /\ cur.naxis[2] > 0
            /\ HasCard(cur.cards, kCRPIX1) /\ HasCard(cur.cards, kCRPIX2)
            /\ ~BadDeclination) =>
               /\ err.code = "BAD_REQUEST"
               /\ err.msg = "Negative cutout size"

\* ------------------------------------------------------------------------
\* Functions run on their own.  The variables of the streamer hold no
\* request; arg holds the arguments, ret the locals and the result, pc the
\* position in the function and err the exception it throws.
\* ------------------------------------------------------------------------
streamVars == <<variant, file, center, size, hdunum, num_bytes, sink, box, hpos,
                nkeys, k, y, firstpix, boxes>>
NoStream ==
    /\ variant = "stream_subimage"
    /\ file = <<>>
    /\ center = Coords(0, 0, "PIX") /\ size = Coords(0, 0, "PIX")
    /\ hdunum = 1 /\ num_bytes = 0 /\ sink = <<>> /\ box = NoBox
    /\ hpos = 1 /\ nkeys = 0 /\ k = 0 /\ y = 0 /\ firstpix = 0
    /\ boxes = <<>>

\* ------------------------------------------------------------------------
\* The normalization of a sky center (cutoutPixelBox.cxx 43-77), for every
\* kind of value strtod can hand over.  arg is the center as parsed, ret is
\* center.c as the code updates it.
\* ------------------------------------------------------------------------
\* Centers in degrees, arc minutes and arc seconds: the same angles.
LonDegrees == {-370, -360, -10, 0, 10, 350, 360, 370, 720}
LatDegrees == {-91, -90, 0, 45, 90, 91}
\* Centers in radians, in quarters of a radian.
LonQuarterRad == {-26, -1, 0, 1, 25, 26}
LatQuarterRad == {-7, -6, 0, 6, 7}
LonSpecial == {NaN, Inf(1), Inf(-1), Tiny(-1), Tiny(1)}
LatSpecial == {NaN, Inf(1), Tiny(-1)}
NormInputs ==
    UNION {
        {[c |-> <<lon, lat>>, units |-> u[1]] :
            lon \in {Fin(u[2] * a) : a \in LonDegrees} \cup LonSpecial,
            lat \in {Fin(u[2] * a) : a \in LatDegrees} \cup LatSpecial} :
        u \in {<<"DEG", 4>>, <<"ARCMIN", 240>>, <<"ARCSEC", 14400>>}}
    \cup
    {[c |-> <<lon, lat>>, units |-> "RAD"] :
        lon \in {Fin(q) : q \in LonQuarterRad} \cup LonSpecial,
        lat \in {Fin(q) : q \in LatQuarterRad} \cup LatSpecial}

\* "convert to degrees" for doubles: the factor is that of CenterToDeg.
CenterToDegD(c) ==
    LET f == CenterToDeg([c |-> <<1, 1>>, units |-> c.units])[1]
    IN  <<DScale(c.c[1], f), DScale(c.c[2], f)>>

NormInit ==
    /\ NoStream
    /\ arg \in NormInputs
    /\ ret = arg.c
    /\ pc = "convert"
    /\ err = NoErr

\* switch (center.units): convert to degrees
NormConvert ==
    /\ pc = "convert"
    /\ ret' = CenterToDegD(arg)
    /\ pc' = "check_lat"
    /\ UNCHANGED <<streamVars, arg, err>>

\* if (center.c[1] < -90.0 || center.c[1] > 90.0) throw
NormCheckLat ==
    /\ pc = "check_lat"
    /\ IF DLess(ret[2], -Deg(90)) \/ DGreater(ret[2], Deg(90))
       THEN Throw("BAD_REQUEST", "Center declination out of range [-90, 90] deg")
       ELSE pc' = "fmod" /\ err' = err
    /\ UNCHANGED <<streamVars, arg, ret>>

\* center.c[0] = fmod(...), += 360.0, == 360.0; sky = center.c
NormFmod ==
    /\ pc = "fmod"
    /\ ret' = <<NormalizeLonD(ret[1]), ret[2]>>
    /\ pc' = "sky"
    /\ UNCHANGED <<streamVars, arg, err>>

NormNext == NormConvert \/ NormCheckLat \/ NormFmod
NormSpec == NormInit /\ [][NormNext]_vars

\* ------------------------------------------------------------------------
\* C14: after the normalization of a sky center given in any unit the
\* longitude is in [0, 360) and the latitude in [-90, 90], whatever the
\* input value; -10 degrees become 350 and 360 becomes 0.
\* ------------------------------------------------------------------------
C14_NormalizedRange ==
    (pc = "sky") =>
        /\ ret[1].cls \in {"fin", "tiny"}
        /\ ~DLess(ret[1], 0) /\ DLess(ret[1], 360 * 3600 * 4)
        /\ ret[2].cls \in {"fin", "tiny"}
        /\ ~DLess(ret[2], -(90 * 3600 * 4)) /\ ~DGreater(ret[2], 90 * 3600 * 4)
        /\ (arg.units = "DEG" /\ arg.c[1] = Fin(-40)) => ret[1] = Fin(350 * 3600 * 4)
        /\ (arg.units = "DEG" /\ arg.c[1] = Fin(1440)) => ret[1] = Fin(0)

\* ------------------------------------------------------------------------
\* pixcen on its own: arg is x in quarters, ret is pixcen(x).
\* ------------------------------------------------------------------------
PixInit ==
    /\ NoStream
    /\ arg \in (-4 * MaxPix)..(4 * MaxPix)
    /\ ret = 0
    /\ pc = "pixcen"
    /\ err = NoErr
PixcenCall ==
    /\ pc = "pixcen"
    /\ ret' = pixcen(arg)
    /\ pc' = "pixcen_ret"
    /\ UNCHANGED <<streamVars, arg, err>>
PixNext == PixcenCall
PixSpec == PixInit /\ [][PixNext]_vars

\* ------------------------------------------------------------------------
\* C15 as the specification words it: pixcen(x) is an integer and
\* pixcen(x) - x lies in [-0.5, 0.5).  (ret is a whole number of pixels;
\* 4 * ret - arg is the difference in quarters.)
\* ------------------------------------------------------------------------
C15_HalfOpenBelow ==
    (pc = "pixcen_ret") =>
        /\ ret \in Int
        /\ -2 <= 4 * ret - arg /\ 4 * ret - arg < 2

\* C15 as the code has it: pixcen(x) = floor(x + 0.5) is an integer and
\* pixcen(x) - x lies in (-0.5, 0.5]: a value x = N - 0.5 belongs to pixel
\* N, the pixel above it.
C15_HalfOpenAbove ==
    (pc = "pixcen_ret") =>
        /\ ret \in Int
        /\ -2 < 4 * ret - arg /\ 4 * ret - arg <= 2
        /\ arg % 4 = 2 => 4 * ret - arg = 2

\* pixcen has been applied to a negative value half way between two pixel
\* centers.
C15_Witness ==
    /\ pc = "pixcen_ret" /\ arg % 4 = 2 /\ arg < 0
    /\ 4 * ret - arg = 2

\* ------------------------------------------------------------------------
\* The angular boundary search, one loop iteration per step (search.cxx).
\* arg holds the arguments of search; ret holds the loop state st together
\* with a record of the first overshoot: the value of |inc| and of the
\* iteration count just before the first probe with d > size.
\* ------------------------------------------------------------------------
MaxSearchSize == 40

SearchWcs == {[ok |-> TRUE, crpix |-> <<4 * 50, 4 * 50>>]}
SearchPix == {<<4 * 50, 4 * 50>>, <<4 * 45 + 1, 4 * 52 + 2>>, <<4 * 3 - 1, 4 * 97>>}
\* Twice the size argument, in quarter arc seconds; the last value is larger
\* than the plate, so the probe leaves the domain of the projection.
SearchSizes == {8 * n : n \in 0..MaxSearchSize} \cup {1, 5, 13, 2 * Deg(200)}
SearchArgs ==
    {[wcs |-> w, sky |-> pixel_to_sky(w, px), pix |-> px, size2 |-> sz,
      dim |-> dm, dir |-> dr] :
        w \in SearchWcs, px \in SearchPix, sz \in SearchSizes,
        dm \in {1, 2}, dr \in {-1, 1}}

NoOvershoot == [inc |-> 0, iter |-> 0]

SearchInit ==
    /\ NoStream
    /\ arg \in SearchArgs
    /\ ret = [st |-> SearchStart(arg.pix, arg.dim, arg.dir), first |-> NoOvershoot]
    /\ pc = "search_loop"
    /\ err = NoErr

\* One iteration of the while loop.
SearchIter ==
    /\ pc = "search_loop"
    /\ SearchGuard(ret.st)
    /\ \E n \in {SearchBody(arg.wcs, arg.sky, arg.size2, arg.dim, ret.st)} :
          ret' = [st |-> n,
                  first |-> IF ret.st.scale = 2 /\ n.scale = 1
                            THEN [inc |-> Abs(ret.st.inc), iter |-> ret.st.iter]
                            ELSE ret.first]
    /\ UNCHANGED <<arg, pc, err>>
    /\ UNCHANGED streamVars

\* The loop condition fails, or the body left the loop: return pixcen(p[dim]).
SearchReturn ==
    /\ pc = "search_loop"
    /\ ~SearchGuard(ret.st)
    /\ pc' = "search_ret"
    /\ UNCHANGED <<arg, ret, err>>
    /\ UNCHANGED streamVars

SearchNext == SearchIter \/ SearchReturn

SearchSpec == SearchInit /\ [][SearchNext]_vars

RECURSIVE Pow2(_)
Pow2(n) == IF n <= 0 THEN 1 ELSE 2 * Pow2(n - 1)

\* An iteration that stays in the loop: either branch that changes inc.
SearchProbed == ret'.st.iter = ret.st.iter + 1 /\ ~ret'.st.brk /\ ret'.st.code = "OK"

\* C16, state part: after the first overshoot at |inc| = 2^k (first.inc is
\* 4 * 2^k quarters) the iterations made, counting the overshooting one, are
\* at most k + 1, every one of them that changed inc halved it, and the loop
\* has returned once k + 1 of them are made.
C16_Bound ==
    ret.first.inc # 0 =>
        LET n == ret.st.iter - ret.first.iter IN
        /\ n >= 1
        /\ Pow2(n) <= 2 * (ret.first.inc \div 4)
        /\ \/ ret.st.brk
           \/ ret.st.code # "OK"
           \/ Abs(ret.st.inc) * Pow2(n) = ret.first.inc
        /\ pc = "search_ret" => (Abs(ret.st.inc) < 4 \/ ret.st.brk \/ ret.st.code # "OK")

\* C16, step part: scale never returns from 0.5 to 2.0, and with scale 0.5
\* an iteration of either branch halves |inc|.
C16_Step ==
    /\ ret.st.scale = 1 => ret'.st.scale = 1
    /\ (ret.st.scale = 1 /\ SearchProbed) => 2 * Abs(ret'.st.inc) = Abs(ret.st.inc)
    /\ (ret.st.scale = 2 /\ ret'.st.scale = 1) => 2 * Abs(ret'.st.inc) = Abs(ret.st.inc)

\* C16: once a probe overshoots, scale stays 0.5, |inc| is halved at every
\* iteration, and the loop exits with |inc| < 1 after at most k + 1
\* iterations when |inc| was 2^k just before the first overshoot.
C16_HalvingAfterOvershoot == [](C16_Bound) /\ [][C16_Step]_vars

\* A search that overshot at |inc| = 8, took both branches afterwards and
\* returned with |inc| < 1 after exactly k + 1 = 4 iterations.
C16_Witness ==
    /\ pc = "search_ret"
    /\ ret.first.inc = 4 * 8
    /\ ret.st.iter - ret.first.iter = 4
    /\ Abs(ret.st.inc) = 2
    /\ ~ret.st.brk
    /\ ret.st.p[arg.dim] # 4 * pixcen(arg.pix[arg.dim]) + 2 * arg.dir

\* ------------------------------------------------------------------------
\* Image HDUs the streamer does not support.
\* ------------------------------------------------------------------------
BadAxes(h) ==
    h.hdutype = "IMAGE_HDU" /\ h.naxes # 0
        /\ (h.naxes # 2 \/ h.naxis[1] <= 0 \/ h.naxis[2] <= 0)
BadBitpix(h) ==
    h.hdutype = "IMAGE_HDU" /\ h.naxes = 2 /\ ~BadAxes(h) /\ h.bitpix \notin ValidBitpix
Unsupported(h) == BadAxes(h) \/ BadBitpix(h)

\* The request has ended: successfully or with an exception.
Ended == pc \in {"done", "error"}

MaxDatums == 2

\* buf with the bytes of each of its first n groups of w bytes reversed.
ReverseWithin(buf, n, w) ==
    [j \in 1..Len(buf) |->
        IF (j - 1) \div w < n
        THEN buf[((j - 1) \div w) * w + (w - ((j - 1) % w))]
        ELSE buf[j]]

\* What the library leaves in the buffer: the values of the pixels as C
\* data of the host, so on a little-endian host the low byte first.
HostBytes(bytes, bitpix, little) ==
    IF little
    THEN ReverseWithin(bytes, Len(bytes) \div (Abs(bitpix) \div 8), Abs(bitpix) \div 8)
    ELSE bytes

\* uint16_t v = b[i]; b[i] = (v >> 8) | (v << 8);  i counts from 0.
Bswap16(buf, i) ==
    LET v == buf[2 * i + 1] + 256 * buf[2 * i + 2]
    IN  ((v \div 256) + (v * 256)) % 65536

bswap_pixelsMutNoFloat(buf, buf_size, bitpix, little) ==
    IF ~little THEN buf
    ELSE CASE bitpix = 16 ->
                [j \in 1..Len(buf) |->
                    IF (j - 1) \div 2 < buf_size \div 2
                    THEN IF (j - 1) % 2 = 0
                         THEN Bswap16(buf, (j - 1) \div 2) % 256
                         ELSE Bswap16(buf, (j - 1) \div 2) \div 256
                    ELSE buf[j]]
           [] bitpix = 32 -> ReverseWithin(buf, buf_size \div 4, 4)
           [] bitpix \in {64, -64} -> ReverseWithin(buf, buf_size \div 8, 8)
           [] OTHER -> buf

\* bswap_pixels; nothing is compiled into it on a big-endian host.
bswap_pixels(buf, buf_size, bitpix, little) ==
    IF ~little THEN buf
    ELSE CASE bitpix = 16 ->
                [j \in 1..Len(buf) |->
                    IF (j - 1) \div 2 < buf_size \div 2
                    THEN IF (j - 1) % 2 = 0
                         THEN Bswap16(buf, (j - 1) \div 2) % 256
                         ELSE Bswap16(buf, (j - 1) \div 2) \div 256
                    ELSE buf[j]]
           [] bitpix \in {32, -32} -> ReverseWithin(buf, buf_size \div 4, 4)
           [] bitpix \in {64, -64} -> ReverseWithin(buf, buf_size \div 8, 8)
           [] OTHER -> buf

\* Bytes of the source file: a few patterns for every BITPIX and length,
\* and every pair of bytes out of four values for one 16-bit pixel.
SwapPatterns(len) ==
    {[j \in 1..len |-> j], [j \in 1..len |-> 256 - j],
     [j \in 1..len |-> (85 * j) % 256],
     [j \in 1..len |-> IF j % 2 = 1 THEN 255 ELSE 0], [j \in 1..len |-> 128]}
SwapInputs ==
    UNION {{[bitpix |-> b, little |-> l, bytes |-> f] :
                l \in BOOLEAN, f \in SwapPatterns(n * (Abs(b) \div 8))} :
            b \in ValidBitpix, n \in 1..MaxDatums}
    \cup {[bitpix |-> 16, little |-> l, bytes |-> <<hi, lo>>] :
            l \in BOOLEAN, hi \in {0, 1, 128, 255}, lo \in {0, 1, 128, 255}}

SwapInit ==
    /\ NoStream
    /\ arg \in SwapInputs
    /\ ret = [host |-> <<>>, buf |-> <<>>, out |-> <<>>]
    /\ pc = "fits_read_img"
    /\ err = NoErr

\* fits_read_img / fits_read_compressed_img
SwapRead ==
    /\ pc = "fits_read_img"
    /\ \E h \in {HostBytes(arg.bytes, arg.bitpix, arg.little)} :
          ret' = [ret EXCEPT !.host = h, !.buf = h]
    /\ pc' = "bswap_pixels"
    /\ UNCHANGED <<arg, err>>
    /\ UNCHANGED streamVars

\* bswap_pixels (buf.get(), buf_size, bitpix)
SwapPixels ==
    /\ pc = "bswap_pixels"
    /\ \E b \in {bswap_pixels(ret.buf, Len(ret.buf), arg.bitpix, arg.little)} :
          ret' = [ret EXCEPT !.buf = b]
    /\ pc' = "write"
    /\ UNCHANGED <<arg, err>>
    /\ UNCHANGED streamVars

\* writer.write (buf.get (), buf_size)
SwapWrite ==
    /\ pc = "write"
    /\ ret' = [ret EXCEPT !.out = ret.buf]
    /\ pc' = "written"
    /\ UNCHANGED <<arg, err>>
    /\ UNCHANGED streamVars

SwapNext == SwapRead \/ SwapPixels \/ SwapWrite

SwapSpec == SwapInit /\ [][SwapNext]_vars

\* C18: on a little-endian host bswap_pixels reverses the bytes of every
\* datum of the buffer over exactly |BITPIX| / 8 bytes (nothing for BITPIX
\* 8) and keeps the length; the buffer is then the bytes of the source
\* file, which are the bytes written; a second swap gives the buffer as it
\* was read.
C18_ByteSwap ==
    (arg.little /\ pc \in {"write", "written"}) =>
        LET w == Abs(arg.bitpix) \div 8 IN
        /\ Len(ret.buf) = Len(ret.host)
        /\ \A j \in 1..Len(ret.buf) :
              ret.buf[j] = ret.host[((j - 1) \div w) * w + (w - ((j - 1) % w))]
        /\ arg.bitpix = 8 => ret.buf = ret.host
        /\ ret.buf = arg.bytes
        /\ bswap_pixels(ret.buf, Len(ret.buf), arg.bitpix, arg.little) = ret.host
        /\ pc = "written" => ret.out = arg.bytes

\* Two doubles were read, swapped and written on a little-endian host, and
\* the swap changed the buffer.
C18_Witness ==
    /\ pc = "written" /\ arg.little /\ arg.bitpix = -64
    /\ Len(ret.out) = 16 /\ ret.out = arg.bytes
    /\ ret.host # ret.buf
    /\ ret.host[1] = arg.bytes[8] /\ ret.host[9] = arg.bytes[16]
    /\ arg.bytes[1] # arg.bytes[8]

\* ------------------------------------------------------------------------
\* The four conversions of the two Wcs classes, one call each.  arg holds
\* the method called, the WCS and the point; ret holds the outcome.
\* ------------------------------------------------------------------------
WcsPoints ==
    {<<p1, p2>> : p1 \in {0, 200, Deg(45), Deg(89), Deg(90), Deg(91), Deg(180)},
                  p2 \in {0, 200, Deg(45), Deg(90), Deg(91)}}

ConvInit ==
    /\ NoStream
    /\ arg \in {[fn |-> f, wcs |-> w, v |-> pt] :
                  f \in {"pixelToSky", "skyToPixel", "pixel_to_sky", "sky_to_pixel"},
                  w \in SearchWcs, pt \in WcsPoints}
    /\ ret = <<>>
    /\ pc = "wcs_call"
    /\ err = NoErr

\* The call: what comes back, or the exception that leaves it.
ConvCall ==
    /\ pc = "wcs_call"
    /\ ret' = CASE arg.fn = "pixelToSky" -> pixelToSky(arg.wcs, arg.v)
                [] arg.fn = "skyToPixel" -> skyToPixel(arg.wcs, arg.v)
                [] arg.fn = "pixel_to_sky" ->
                       [code |-> "OK", msg |-> "", v |-> pixel_to_sky(arg.wcs, arg.v)]
                [] arg.fn = "sky_to_pixel" -> sky_to_pixel(arg.wcs, arg.v)
    /\ pc' = "wcs_ret"
    /\ UNCHANGED <<arg, err>>
    /\ UNCHANGED streamVars

ConvNext == ConvCall

ConvSpec == ConvInit /\ [][ConvNext]_vars

\* What the library has to say about the point of the call: 0, or 9 for
\* coordinates it cannot convert.
LibraryCode ==
    IF arg.fn \in {"pixelToSky", "pixel_to_sky"}
    THEN LibP2sRet(arg.wcs, arg.v) ELSE LibS2pRet(arg.wcs, arg.v)

\* C19: every conversion succeeds when the library returns 0, fails with
\* BAD_REQUEST exactly when it reports invalid coordinates (code 9), and
\* fails with INTERNAL_SERVER_ERROR on any other code.
C19_SameFailurePolicy ==
    pc = "wcs_ret" =>
        /\ ret.code = "OK" <=> LibraryCode = 0
        /\ ret.code = "BAD_REQUEST" <=> LibraryCode = 9
        /\ ret.code = "INTERNAL_SERVER_ERROR" <=> LibraryCode \notin {0, 9}

\* ------------------------------------------------------------------------
\* parse_coords (parse_coords.cxx).  The value of the parameter is a
\* sequence of characters; positions count from 1, and position
\* Len(value) + 1 is the terminating NUL of value.c_str().
\* ------------------------------------------------------------------------
MaxText == 3

Cat(A, B) == {a \o b : a \in A, b \in B}
Opt(A) == A \cup {<<>>}

\* The languages of the unit expressions, without the trailing \s*.
pix_re ==
    {<<"p">>, <<"p", "x">>} \cup
    Cat({<<"p", "i", "x">>}, Opt(Cat({<<"e", "l">>}, Opt({<<"s">>}))))
arcsec_re ==
    {<<"\"">>} \cup
    Cat(Cat(Cat({<<"a">>}, Opt({<<"r", "c">>})), Opt({<<"-">>})),
        Cat({<<"s", "e", "c">>}, Opt(Cat({<<"o", "n", "d">>}, Opt({<<"s">>})))))
arcmin_re ==
    {<<"'">>} \cup
    Cat(Cat(Cat({<<"a">>}, Opt({<<"r", "c">>})), Opt({<<"-">>})),
        Cat({<<"m", "i", "n">>}, Opt(Cat({<<"u", "t", "e">>}, Opt({<<"s">>})))))
deg_re ==
    Cat({<<"d">>}, Opt(Cat({<<"e", "g">>}, Opt(Cat({<<"r", "e", "e">>}, Opt({<<"s">>}))))))
rad_re == Cat({<<"r", "a", "d">>}, Opt(Cat({<<"i", "a", "n">>}, Opt({<<"s">>}))))

isspace(ch) == ch = " "
Digits == <<"0", "1", "2", "3", "4", "5", "6", "7", "8", "9">>
IsDigit(ch) == \E d \in 1..10 : Digits[d] = ch
DigitVal(ch) == (CHOOSE d \in 1..10 : Digits[d] = ch) - 1

\* The character at position i of value.c_str().
At(value, i) == IF i <= Len(value) THEN value[i] ELSE NUL

\* for (; std::isspace(*s); ++s) {}
RECURSIVE SkipSpace(_, _)
SkipSpace(value, i) ==
    IF isspace(At(value, i)) THEN SkipSpace(value, i + 1) ELSE i

\* The end of the run of digits that starts at i.
RECURSIVE DigitsEnd(_, _)
DigitsEnd(value, i) ==
    IF IsDigit(At(value, i)) THEN DigitsEnd(value, i + 1) ELSE i

\* The decimal value of the digits at positions i .. j - 1.
RECURSIVE DecimalVal(_, _, _)
DecimalVal(value, i, j) ==
    IF j <= i THEN 0
    ELSE 10 * DecimalVal(value, i, j - 1) + DigitVal(value[j - 1])

\* std::strtod (value.c_str() + start - 1, &s) on text made of spaces,
\* signs, decimal digits and other characters that start no number: white
\* space, an optional sign, digits.  end = start when nothing is converted.
strtod(value, start) ==
    LET a == SkipSpace(value, start)
        b == IF At(value, a) \in {"-", "+"} THEN a + 1 ELSE a
        e == DigitsEnd(value, b)
    IN  IF e = b THEN [val |-> 0, end |-> start]
        ELSE [val |-> IF At(value, a) = "-" THEN -DecimalVal(value, b, e)
                      ELSE DecimalVal(value, b, e),
              end |-> e]

\* value.find(','): the position of the first comma, 0 for npos.
FindComma(value) ==
    IF \E i \in 1..Len(value) : value[i] = ","
    THEN CHOOSE i \in 1..Len(value) :
             value[i] = "," /\ \A j \in 1..(i - 1) : value[j] # ","
    ELSE 0

\* std::regex_match (s, re): the text from position i on is a word of re
\* followed by white space only.
RegexMatch(value, i, re) ==
    \E w \in re :
        /\ i + Len(w) - 1 <= Len(value)
        /\ \A j \in 1..Len(w) : value[i + j - 1] = w[j]
        /\ \A j \in (i + Len(w))..Len(value) : isspace(value[j])

ParseFailure(msg) == [code |-> "BAD_REQUEST", msg |-> msg, coords |-> Coords(0, 0, "PIX")]
ParseResult(c0, c1, units) == [code |-> "OK", msg |-> "", coords |-> Coords(c0, c1, units)]

\* The unit specification, from position i on.
ParseUnits(value, i, c0, c1, default_units) ==
    LET s == SkipSpace(value, i) IN
    IF At(value, s) = NUL THEN ParseResult(c0, c1, default_units)
    ELSE IF RegexMatch(value, s, pix_re) THEN ParseResult(c0, c1, "PIX")
    ELSE IF RegexMatch(value, s, arcsec_re) THEN ParseResult(c0, c1, "ARCSEC")
    ELSE IF RegexMatch(value, s, arcmin_re) THEN ParseResult(c0, c1, "ARCMIN")
    ELSE IF RegexMatch(value, s, deg_re) THEN ParseResult(c0, c1, "DEG")
    ELSE IF RegexMatch(value, s, rad_re) THEN ParseResult(c0, c1, "RAD")
    ELSE ParseFailure("invalid trailing unit specification")

parse_coordsMutNoPairCheck(value, default_units, require_pair) ==
    LET comma == FindComma(value)
        first == strtod(value, 1)
        second == strtod(value, comma + 1)
    IN  IF first.end = 1 THEN ParseFailure("PP_MSG")
        ELSE IF comma # 0
        THEN IF SkipSpace(value, first.end) # comma THEN ParseFailure("PP_MSG")
             ELSE IF second.end = comma + 1 THEN ParseFailure("PP_MSG")
             ELSE ParseUnits(value, second.end, first.val, second.val, default_units)
        ELSE ParseUnits(value, first.end, first.val, first.val, default_units)

parse_coords(value, default_units, require_pair) ==
    LET comma == FindComma(value)
        first == strtod(value, 1)
        second == strtod(value, comma + 1)
    IN  IF comma = 0 /\ require_pair THEN ParseFailure("PP_MSG")
        ELSE IF first.end = 1 THEN ParseFailure("PP_MSG")
        ELSE IF require_pair \/ comma # 0
        THEN IF SkipSpace(value, first.end) # comma THEN ParseFailure("PP_MSG")
             ELSE IF second.end = comma + 1 THEN ParseFailure("PP_MSG")
             ELSE ParseUnits(value, second.end, first.val, second.val, default_units)
        ELSE ParseUnits(value, first.end, first.val, first.val, default_units)

\* The decimal text of a number, as a client writes it.
RECURSIVE Numeral(_)
Numeral(n) ==
    IF n < 0 THEN <<"-">> \o Numeral(-n)
    ELSE IF n < 10 THEN <<Digits[n + 1]>>
    ELSE Numeral(n \div 10) \o <<Digits[(n % 10) + 1]>>

\* Unit texts with the units they stand for ("none": no text, "bad": no
\* unit at all).
UnitTexts ==
    {[text |-> <<>>, units |-> "none"],
     [text |-> <<"d">>, units |-> "DEG"],
     [text |-> <<"d", "e", "g">>, units |-> "DEG"],
     [text |-> <<"p", "x">>, units |-> "PIX"],
     [text |-> <<"r", "a", "d">>, units |-> "RAD"],
     [text |-> <<"\"">>, units |-> "ARCSEC"],
     [text |-> <<"a", "r", "c", "-", "m", "i", "n">>, units |-> "ARCMIN"],
     [text |-> <<"x">>, units |-> "bad"],
     [text |-> <<"d", "d">>, units |-> "bad"]}

Blank == {<<>>, <<" ">>}
ParseNumbers == {-12, 2, 21}

\* Well-formed values: one number or two, white space and a unit text.
SingleValues ==
    {[value |-> w1 \o Numeral(n) \o w2 \o u.text \o w3, nums |-> <<n>>, unit |-> u.units] :
        w1 \in Blank, n \in ParseNumbers, w2 \in Blank, u \in UnitTexts, w3 \in Blank}
PairValues ==
    {[value |-> Numeral(n[1]) \o w1 \o <<",">> \o w2 \o Numeral(n[2]) \o w3 \o u.text,
      nums |-> n, unit |-> u.units] :
        n \in ParseNumbers \X ParseNumbers, w1 \in Blank, w2 \in Blank, w3 \in Blank,
        u \in UnitTexts}
\* Every text of up to MaxText characters out of five.
AnyValues ==
    {[value |-> v, nums |-> <<>>, unit |-> "bad"] :
        v \in UNION {[1..n -> {"1", " ", ",", "-", "d"}] : n \in 0..MaxText}}

\* The letters of the unit texts, and each in upper case.
LowerLetters == <<"a", "c", "d", "e", "g", "i", "l", "m", "n", "o", "p", "r", "s", "t", "u", "x">>
UpperLetters == <<"A", "C", "D", "E", "G", "I", "L", "M", "N", "O", "P", "R", "S", "T", "U", "X">>
ToUpper(ch) ==
    IF \E i \in 1..Len(LowerLetters) : LowerLetters[i] = ch
    THEN UpperLetters[CHOOSE i \in 1..Len(LowerLetters) : LowerLetters[i] = ch]
    ELSE ch
ToLower(ch) ==
    IF \E i \in 1..Len(UpperLetters) : UpperLetters[i] = ch
    THEN LowerLetters[CHOOSE i \in 1..Len(UpperLetters) : UpperLetters[i] = ch]
    ELSE ch
LowerText(text) == [i \in 1..Len(text) |-> ToLower(text[i])]

\* One number and a unit text in upper case, or with a capital first.
CaseValues ==
    UNION {{[value |-> Numeral(n) \o w \o t, nums |-> <<>>, unit |-> u.units] :
                n \in ParseNumbers, w \in Blank,
                t \in {[i \in 1..Len(u.text) |-> ToUpper(u.text[i])],
                       [i \in 1..Len(u.text) |->
                           IF i = 1 THEN ToUpper(u.text[i]) ELSE u.text[i]]}} :
            u \in UnitTexts \ {[text |-> <<>>, units |-> "none"]}}

ParseInit ==
    /\ NoStream
    /\ \E v \in SingleValues \cup PairValues \cup AnyValues \cup CaseValues,
          d \in {"PIX", "DEG"}, rp \in BOOLEAN :
          arg = [value |-> v.value, nums |-> v.nums, unit |-> v.unit,
                 default_units |-> d, require_pair |-> rp]
    /\ ret = <<>>
    /\ pc = "parse_coords"
    /\ err = NoErr

ParseCall ==
    /\ pc = "parse_coords"
    /\ ret' = parse_coords(arg.value, arg.default_units, arg.require_pair)
    /\ pc' = "parse_ret"
    /\ UNCHANGED <<arg, err>>
    /\ UNCHANGED streamVars

ParseNext == ParseCall

ParseSpec == ParseInit /\ [][ParseNext]_vars

HasComma(value) == \E i \in 1..Len(value) : value[i] = ","
ExpectedUnits == IF arg.unit = "none" THEN arg.default_units ELSE arg.unit

\* C20: with require_pair = false a single number is both components, and
\* without a unit text the units are the default; with require_pair = true
\* a value without a comma is a BAD_REQUEST; a value with a comma gives the
\* two numbers in order.
C20_ParseCoords ==
    pc = "parse_ret" =>
        /\ (arg.require_pair /\ ~HasComma(arg.value)) => ret.code = "BAD_REQUEST"
        /\ (Len(arg.nums) = 1 /\ ~arg.require_pair /\ arg.unit # "bad") =>
              /\ ret.code = "OK"
              /\ ret.coords = Coords(arg.nums[1], arg.nums[1], ExpectedUnits)
        /\ (Len(arg.nums) = 2 /\ arg.unit # "bad") =>
              /\ ret.code = "OK"
              /\ ret.coords = Coords(arg.nums[1], arg.nums[2], ExpectedUnits)

\* "-12 , 21 deg" was parsed without a pair being required, "2" was parsed
\* with the default units, or "21 px" was refused where a pair is required.
C20_Witness ==
    /\ pc = "parse_ret"
    /\ \/ /\ ~arg.require_pair /\ arg.nums = <<-12, 21>> /\ arg.unit = "DEG"
          /\ arg.default_units = "PIX" /\ Len(arg.value) > 9
          /\ ret.coords = Coords(-12, 21, "DEG")
       \/ /\ ~arg.require_pair /\ arg.nums = <<2>> /\ arg.unit = "none"
          /\ ret.coords = Coords(2, 2, arg.default_units)
       \/ /\ arg.require_pair /\ arg.nums = <<21>> /\ arg.unit = "PIX"
          /\ ret.code = "BAD_REQUEST"

\* C21: the unit text is matched without regard to case: a value is parsed
\* as its lower-case form is, and a unit text that is none of the five
\* units is a BAD_REQUEST.
C21_CaseInsensitive ==
    pc = "parse_ret" =>
        /\ ret = parse_coords(LowerText(arg.value), arg.default_units, arg.require_pair)
        /\ (arg.unit = "bad" /\ arg.nums # <<>>) => ret.code = "BAD_REQUEST"

\* ------------------------------------------------------------------------
\* Access control: check_access (check_access.cxx) and checkAccess
\* (nph-serve.cxx) against the file system metadata database.
\* ------------------------------------------------------------------------

\* std::string::find (s, pos): the 0-based offset of the first occurrence of
\* s at or after pos, -1 (npos) when there is none.
StrFind(str, s, pos) ==
    LET hits == {i \in pos..(Len(str) - Len(s)) : SubSeq(str, i + 1, i + Len(s)) = s}
    IN  IF hits = {} THEN -1 ELSE CHOOSE i \in hits : \A j \in hits : i <= j

\* getDbPath: the text after the third '/', without a trailing '/'.  A find
\* that fails yields npos, and npos + 1 is 0.
getDbPath(path) ==
    LET i1 == StrFind(path, <<"/">>, 0)
        i2 == StrFind(path, <<"/">>, i1 + 1)
        i3 == StrFind(path, <<"/">>, i2 + 1)
        dbpath == SubSeq(path, i3 + 2, Len(path))
    IN  IF dbpath # <<>> /\ dbpath[Len(dbpath)] = "/"
        THEN SubSeq(dbpath, 1, Len(dbpath) - 1) ELSE dbpath

\* operator<< of a filesystem path: the text between double quotes, with a
\* backslash before every double quote and backslash of it.
RECURSIVE Escaped(_)
Escaped(s) ==
    IF s = <<>> THEN <<>>
    ELSE (IF Head(s) \in {"\"", "\\"} THEN <<"\\", Head(s)>> ELSE <<Head(s)>>)
         \o Escaped(Tail(s))
Quoted(p) == <<"\"">> \o Escaped(p) \o <<"\"">>

\* The condition the statement adds for a policy, on a row of the table.
PolicyClause(policy, groups, r) ==
    CASE policy = "GRANTED"   -> TRUE
      [] policy = "DATE_ONLY" -> r.pub_date_past \/ r.is_dir
      [] policy = "ROW_ONLY"  -> r.ipac_gid \in groups \/ r.is_dir
      [] policy = "ROW_DATE"  -> r.ipac_gid \in groups \/ r.pub_date_past \/ r.is_dir

\* transaction.exec of SELECT COUNT(*) ... WHERE path_name = 'name' AND
\* (...): the number of rows the statement selects.
SqlCount(db, name, access) ==
    Cardinality({r \in db : /\ r.path_name = name
                            /\ PolicyClause(access.policy, access.groups, r)})

\* What is left of the access check once the name of the row is written.
AccessQuery(name, access, db) ==
    IF access.policy = "DENIED" THEN [code |-> "NOT_FOUND", msg |-> ""]
    ELSE IF access.policy # "GRANTED" \/ access.pg_conn # <<>>
    THEN IF access.policy \notin {"GRANTED", "DATE_ONLY", "ROW_ONLY", "ROW_DATE"}
         THEN [code |-> "INTERNAL_SERVER_ERROR", msg |-> "Invalid access config"]
         ELSE IF SqlCount(db, name, access) = 0
              THEN [code |-> "NOT_FOUND", msg |-> ""]
              ELSE NoErr
    ELSE NoErr

\* check_access: the path leaves the stream as a filesystem path does.
check_access(path, access, db) == AccessQuery(Quoted(path), access, db)

\* checkAccess of nph-serve: the name is the text getDbPath returns.
checkAccess(path, access, db) == AccessQuery(getDbPath(path), access, db)

\* The requests of the access check.  The table holds at most one row, that
\* of the path (under the name the database keeps: <f_1>/.../<f_i>) or that
\* of another path.  The Access constructor leaves ROW_ONLY and ROW_DATE
\* to requesters with at least one group.
TablePath == <<"g", "/", "s", "/", "t", "/", "d", "/", "f">>
RowName == <<"d", "/", "f">>
OtherName == <<"d", "/", "o">>
AccessRows ==
    {[path_name |-> n, ipac_gid |-> g, pub_date_past |-> e, is_dir |-> d] :
        n \in {RowName, OtherName}, g \in {1, 2}, e \in BOOLEAN, d \in BOOLEAN}
AccessConfigs ==
    {a \in [policy : {"DENIED", "GRANTED", "ROW_ONLY", "DATE_ONLY", "ROW_DATE"},
             pg_conn : {<<>>, <<"d", "b">>},
             groups : {{}, {1}, {2}, {1, 2}}] :
        a.policy \in {"ROW_ONLY", "ROW_DATE"} => a.groups # {}}

AccessInit ==
    /\ NoStream
    /\ arg \in {[fn |-> f, path |-> IF f = "checkAccess" THEN TablePath ELSE RowName,
                 access |-> a, db |-> t] :
                  f \in {"check_access", "checkAccess"}, a \in AccessConfigs,
                  t \in {{}} \cup {{r} : r \in AccessRows}}
    /\ ret = <<>>
    /\ pc = "access_call"
    /\ err = NoErr

\* The call: it returns, or an exception leaves it.
AccessCall ==
    /\ pc = "access_call"
    /\ ret' = IF arg.fn = "check_access"
              THEN check_access(arg.path, arg.access, arg.db)
              ELSE checkAccess(arg.path, arg.access, arg.db)
    /\ pc' = "access_ret"
    /\ UNCHANGED <<arg, err>>
    /\ UNCHANGED streamVars

AccessNext == AccessCall

AccessSpec == AccessInit /\ [][AccessNext]_vars

\* The row the table keeps for the path of the request, if it has one.
PathRows == {r \in arg.db : r.path_name = RowName}
InRowGroup == \E r \in PathRows : r.ipac_gid \in arg.access.groups
PeriodExpired == \E r \in PathRows : r.pub_date_past

\* C24: under ROW_ONLY the path of a file gets through exactly when the
\* requester is in the group of its row, under DATE_ONLY exactly when the
\* proprietary period of the row has expired, under ROW_DATE exactly when
\* one of the two holds, and DENIED is always a 404.
C24_AccessPolicy ==
    (pc = "access_ret" /\ \A r \in arg.db : ~r.is_dir) =>
        /\ arg.access.policy = "ROW_ONLY" => (ret.code = "OK" <=> InRowGroup)
        /\ arg.access.policy = "DATE_ONLY" => (ret.code = "OK" <=> PeriodExpired)
        /\ arg.access.policy = "ROW_DATE" =>
               (ret.code = "OK" <=> (InRowGroup \/ PeriodExpired))
        /\ arg.access.policy = "DENIED" => ret.code = "NOT_FOUND"

\* ------------------------------------------------------------------------
\* main of nph-serve.cxx: one CGI request, from the environment to the
\* bytes on standard output.
\* ------------------------------------------------------------------------

\* IBE_DATA_ROOT and what lies on disk.
IBE_DATA_ROOT == <<"/", "r">>
Directories == {IBE_DATA_ROOT, IBE_DATA_ROOT \o <<"/", "d">>}
RegularFiles ==
    {IBE_DATA_ROOT \o <<"/", "d", "/">> \o f :
        f \in {<<"i", ".", "f", "i", "t", "s">>,
               <<"i", ".", "f", "i", "t", "s", ".", "g", "z">>,
               <<"t", ".", "t", "b", "l">>, <<"h", ".", "t">>,
               <<"u", ".", "x", "y">>, <<"n">>}}
is_directory(p) == p \in Directories
is_regular_file(p) == p \in RegularFiles

\* diskpath /= path.  std::filesystem replaces the left side by an absolute
\* right side; boost::filesystem appends it.  A separator is put between
\* the two unless the right side starts with one.
PathAppend(lib, base, p) ==
    IF p # <<>> /\ Head(p) = "/"
    THEN IF lib = "std" THEN p ELSE base \o p
    ELSE IF p = <<>> THEN base ELSE base \o <<"/">> \o p

\* path.filename (): the text after the last separator.
LastIndex(str, ch) ==
    LET hits == {i \in 1..Len(str) : str[i] = ch}
    IN  IF hits = {} THEN 0 ELSE CHOOSE i \in hits : \A j \in hits : j <= i
Filename(p) == SubSeq(p, LastIndex(p, "/") + 1, Len(p))

\* filename.extension (): the text from the last dot of the file name on,
\* empty without a dot (and, with std::filesystem, for a leading dot).
Extension(lib, fname) ==
    LET d == LastIndex(fname, ".") IN
    IF d = 0 \/ (d = 1 /\ lib = "std") THEN <<>> ELSE SubSeq(fname, d, Len(fname))
Stem(lib, fname) == SubSeq(fname, 1, Len(fname) - Len(Extension(lib, fname)))

\* getContentTypes: (file name extensions, MIME type) pairs, in order.
getContentTypes ==
    << <<<<".", "z", "i", "p">>, "application/zip">>,
       <<<<".", "g", "z", " ", ".", "t", "g", "z">>, "application/gzip">>,
       <<<<"f", "i", "t", "s">>, "application/fits">>,
       <<<<".", "g", "i", "f">>, "image/gif">>,
       <<<<".", "j", "p", "g", " ", ".", "j", "p", "e", "g">>, "image/jpeg">>,
       <<<<".", "p", "n", "g">>, "image/png">>,
       <<<<".", "h", "t", "m", " ", ".", "h", "t", "m", "l">>, "text/html; charset=utf-8">>,
       <<<<".", "c", "s", "v">>, "text/csv; charset=utf-8">>,
       <<<<".", "t", "x", "t", " ", ".", "t", "e", "x", "t", " ", ".", "t", "b", "l", " ",
           ".", "m", "d", "5", " ", ".", "a", "n", "c">>, "text/plain; charset=utf-8">> >>

\* The loop over the table: the type of the first pair whose extension text
\* holds the extension somewhere, application/octet-stream without one.
ContentType(extension) ==
    LET cts == getContentTypes
        hits == {i \in 1..Len(cts) : StrFind(cts[i][1], extension, 0) # -1}
    IN  IF hits = {} THEN "application/octet-stream"
        ELSE cts[CHOOSE i \in hits : \A j \in hits : i <= j][2]

\* validate: the protocol and the names of the parameters.
AllowedKeys ==
    {"url_root", "policy", "mission", "group", "pgconn", "pgtable", "path",
     "center", "size", "gzip"}
validate(env) ==
    IF env.protocol \notin {"HTTP/1.1", "HTTP/1.0"}
    THEN [code |-> "BAD_REQUEST", msg |-> "Invalid protocol"]
    ELSE IF \E key \in env.keys : key \notin AllowedKeys
    THEN [code |-> "BAD_REQUEST", msg |-> "unknown parameter"]
    ELSE NoErr

\* validateCutoutParams: center, size and gzip are there as a cutout needs
\* them, or not at all.
validateCutoutParamsMutNoCheck(env, isCutout) == NoErr
validateCutoutParams(env, isCutout) ==
    IF isCutout /\ Len(env.center) # 1
    THEN [code |-> "BAD_REQUEST", msg |-> "center parameter must be specifed exactly once"]
    ELSE IF ~isCutout /\ Len(env.center) # 0
    THEN [code |-> "BAD_REQUEST", msg |-> "invalid parameter: center"]
    ELSE IF isCutout /\ Len(env.size) # 1
    THEN [code |-> "BAD_REQUEST", msg |-> "size parameter must be specifed exactly once"]
    ELSE IF ~isCutout /\ Len(env.size) # 0
    THEN [code |-> "BAD_REQUEST", msg |-> "invalid parameter: size"]
    ELSE IF isCutout /\ Len(env.gzip) > 1
    THEN [code |-> "BAD_REQUEST", msg |-> "gzip parameter must be specifed at most once"]
    ELSE IF ~isCutout /\ Len(env.gzip) # 0
    THEN [code |-> "BAD_REQUEST", msg |-> "invalid parameter: gzip"]
    ELSE NoErr

\* parseBool (env, "gzip", true): the default without the key, the value of
\* the text otherwise; the words are matched without regard to case.
trueRe == {"1", "o", "on", "y", "yes", "t", "true"}
falseRe == {"0", "n", "no", "o", "of", "off", "f", "false"}
parseBool(values, defaultValue) ==
    IF values = <<>> THEN [code |-> "OK", msg |-> "", v |-> defaultValue]
    ELSE IF Len(values) > 1
    THEN [code |-> "BAD_REQUEST", msg |-> "Multiple values", v |-> FALSE]
    ELSE IF values[1] \in trueRe THEN [code |-> "OK", msg |-> "", v |-> TRUE]
    ELSE IF values[1] \in falseRe THEN [code |-> "OK", msg |-> "", v |-> FALSE]
    ELSE [code |-> "BAD_REQUEST", msg |-> "Value must equal", v |-> FALSE]

\* What standard output receives; the code of a status line by its name
\* (OK is 200).
StatusLine(protocol, code) == [kind |-> "status", protocol |-> protocol, code |-> code]
HeaderBlock(ctype) == [kind |-> "headers", ctype |-> ctype]
Body(what) == [kind |-> "body", what |-> what]

\* hex.writeErrorResponse (std::cout): status line, headers, HTML document.
writeErrorResponse(protocol, code) ==
    <<StatusLine(protocol, code), HeaderBlock("text/html; charset=utf-8"), Body("error")>>

\* The requests.  A file name has no leading dot; the streamer ends well or
\* with an exception; one of the system calls may fail.
MainPaths ==
    {<<"d">>,
     <<"d", "/", "i", ".", "f", "i", "t", "s">>,
     <<"d", "/", "i", ".", "f", "i", "t", "s", ".", "g", "z">>,
     <<"d", "/", "t", ".", "t", "b", "l">>,
     <<"d", "/", "h", ".", "t">>,
     <<"d", "/", "u", ".", "x", "y">>,
     <<"d", "/", "n">>,
     <<"d", "/", "m", ".", "f", "i", "t", "s">>,
     <<"d", "/", ".", ".", "/", "d", "/", "n">>,
     <<"/", "d", "/", "i", ".", "f", "i", "t", "s">>}
MainProtocols ==
    {[protocol |-> "HTTP/1.1", keys |-> {"path"}],
     [protocol |-> "HTTP/0.9", keys |-> {"path"}],
     [protocol |-> "HTTP/1.0", keys |-> {"path", "verbose"}]}
CenterValues == {<<>>, <<<<"2", ",", "2">>>>, <<<<"2">>>>, <<<<"2", ",", "2">>, <<"2", ",", "2">>>>}
SizeValues == {<<>>, <<<<"2">>>>, <<<<"2">>, <<"2">>>>}
GzipValues == {<<>>, <<"0">>, <<"maybe">>, <<"1", "1">>}
MainRequests ==
    {[protocol |-> pr.protocol, keys |-> pr.keys, path |-> p, lib |-> l,
      center |-> c, size |-> s, gzip |-> g,
      access |-> [policy |-> po, pg_conn |-> <<>>, groups |-> {}],
      stream |-> st, io |-> io] :
        pr \in MainProtocols, p \in MainPaths, l \in {"std", "boost"},
        c \in CenterValues, s \in SizeValues, g \in GzipValues,
        po \in {"GRANTED", "DENIED"}, st \in {"OK", "INTERNAL_SERVER_ERROR"},
        io \in {"none", "stdout", "file"}}

MainInit ==
    /\ NoStream
    /\ arg \in MainRequests
    /\ ret = [stdout |-> <<>>, sentHeader |-> FALSE, examined |-> {}, exc |-> NoErr,
              diskpath |-> <<>>, contentType |-> "", isGzip |-> FALSE,
              served |-> "none", exit |-> -1]
    /\ pc = "main"
    /\ err = NoErr

\* An exception leaves the try block.
MainThrow(e) ==
    /\ ret' = [ret EXCEPT !.exc = e]
    /\ pc' = "main_catch"

\* Lines 551-564: the environment, validate, the Access object, the check
\* of the path for "..", diskpath.
MainValidate ==
    /\ pc = "main"
    /\ IF validate(arg).code # "OK" THEN MainThrow(validate(arg))
       ELSE IF StrFind(arg.path, <<".", ".">>, 0) # -1
       THEN MainThrow([code |-> "BAD_REQUEST", msg |-> ""])
       ELSE /\ ret' = [ret EXCEPT !.diskpath = PathAppend(arg.lib, IBE_DATA_ROOT, arg.path)]
            /\ pc' = "main_diskpath"
    /\ UNCHANGED <<arg, err>>
    /\ UNCHANGED streamVars

\* Lines 566-569: the status line, the empty line and the two lines about
\* diskpath that every request writes to std::cout.
MainDiskpath ==
    /\ pc = "main_diskpath"
    /\ ret' = [ret EXCEPT
                 !.stdout = @ \o <<StatusLine("HTTP/1.1", "OK"), HeaderBlock(""),
                                   Body("diskpath")>>,
                 !.examined = @ \cup {ret.diskpath}]
    /\ pc' = "main_branch"
    /\ UNCHANGED <<arg, err>>
    /\ UNCHANGED streamVars

\* Lines 573-600: the directory listing.
MainDirectory ==
    /\ pc = "main_branch"
    /\ is_directory(ret.diskpath)
    /\ IF validateCutoutParams(arg, FALSE).code # "OK"
       THEN /\ ret' = [ret EXCEPT !.exc = validateCutoutParams(arg, FALSE),
                                  !.examined = @ \cup {ret.diskpath}]
            /\ pc' = "main_catch"
       ELSE IF arg.io = "stdout"
       THEN /\ ret' = [ret EXCEPT
                         !.sentHeader = TRUE,
                         !.examined = @ \cup {ret.diskpath},
                         !.exc = [code |-> "INTERNAL_SERVER_ERROR",
                                  msg |-> "failed to write to standard out"]]
            /\ pc' = "main_catch"
       ELSE /\ ret' = [ret EXCEPT
                         !.sentHeader = TRUE,
                         !.examined = @ \cup {ret.diskpath},
                         !.stdout = @ \o <<StatusLine(arg.protocol, "OK"),
                                           HeaderBlock("text/html; charset=utf-8"),
                                           Body("listing")>>,
                         !.served = "listing", !.exit = 0]
            /\ pc' = "main_exit"
    /\ UNCHANGED <<arg, err>>
    /\ UNCHANGED streamVars

\* Lines 601-608: neither a directory nor a regular file is a 404; a
\* regular file goes through checkAccess.
MainRegularFile ==
    /\ pc = "main_branch"
    /\ ~is_directory(ret.diskpath)
    /\ IF ~is_regular_file(ret.diskpath)
       THEN /\ ret' = [ret EXCEPT !.exc = [code |-> "NOT_FOUND", msg |-> ""],
                                  !.examined = @ \cup {ret.diskpath}]
            /\ pc' = "main_catch"
       ELSE IF checkAccess(arg.path, arg.access, {}).code # "OK"
       THEN /\ ret' = [ret EXCEPT !.exc = checkAccess(arg.path, arg.access, {}),
                                  !.examined = @ \cup {ret.diskpath}]
            /\ pc' = "main_catch"
       ELSE /\ ret' = [ret EXCEPT !.examined = @ \cup {ret.diskpath}]
            /\ pc' = "main_file"
    /\ UNCHANGED <<arg, err>>
    /\ UNCHANGED streamVars

\* Lines 609-614: the extension that decides about a cutout, ".gz" set
\* aside.
CutoutExtension(lib, path) ==
    IF Extension(lib, Filename(path)) = <<".", "g", "z">>
    THEN Extension(lib, Stem(lib, Filename(path)))
    ELSE Extension(lib, Filename(path))
IsCutoutRequest(env) ==
    /\ CutoutExtension(env.lib, env.path) = <<".", "f", "i", "t", "s">>
    /\ Len(env.center) = 1
    /\ Len(env.size) = 1

\* Lines 619-640: the parameters of the cutout, then the streamer writing
\* into the MemoryWriter.
CutoutFailure(env) ==
    LET v == validateCutoutParams(env, TRUE)
        g == parseBool(env.gzip, TRUE)
        c == parse_coords(env.center[1], "DEG", TRUE)
        s == parse_coords(env.size[1], "DEG", FALSE)
    IN  IF v.code # "OK" THEN v
        ELSE IF g.code # "OK" THEN [code |-> g.code, msg |-> g.msg]
        ELSE IF c.code # "OK" THEN [code |-> c.code, msg |-> c.msg]
        ELSE IF s.code # "OK" THEN [code |-> s.code, msg |-> s.msg]
        ELSE IF env.stream # "OK" THEN [code |-> env.stream, msg |-> "streamSubimage"]
        ELSE NoErr
MainCutout ==
    /\ pc = "main_file"
    /\ IsCutoutRequest(arg)
    /\ IF CutoutFailure(arg).code # "OK" THEN MainThrow(CutoutFailure(arg))
       ELSE /\ ret' = [ret EXCEPT !.isGzip = parseBool(arg.gzip, TRUE).v]
            /\ pc' = "main_send_cutout"
    /\ UNCHANGED <<arg, err>>
    /\ UNCHANGED streamVars

\* Lines 641-668: the header of the cutout and the content of the
\* MemoryWriter.
MainSendCutout ==
    /\ pc = "main_send_cutout"
    /\ IF arg.io = "stdout"
       THEN /\ ret' = [ret EXCEPT
                         !.sentHeader = TRUE,
                         !.exc = [code |-> "INTERNAL_SERVER_ERROR",
                                  msg |-> "failed to write to standard out"]]
            /\ pc' = "main_catch"
       ELSE /\ ret' = [ret EXCEPT
                         !.sentHeader = TRUE,
                         !.contentType = IF ret.isGzip THEN "application/gzip"
                                         ELSE "application/fits",
                         !.stdout = @ \o <<StatusLine(arg.protocol, "OK"),
                                           HeaderBlock(IF ret.isGzip THEN "application/gzip"
                                                       ELSE "application/fits"),
                                           Body("cutout")>>,
                         !.served = "cutout", !.exit = 0]
            /\ pc' = "main_exit"
    /\ UNCHANGED <<arg, err>>
    /\ UNCHANGED streamVars

\* Lines 673-706: the whole file: no cutout parameter, the content type,
\* the size of the file, the open file, the buffer.
MainWholeFile ==
    /\ pc = "main_file"
    /\ ~IsCutoutRequest(arg)
    /\ IF validateCutoutParams(arg, FALSE).code # "OK"
       THEN MainThrow(validateCutoutParams(arg, FALSE))
       ELSE IF arg.io = "file"
       THEN MainThrow([code |-> "INTERNAL_SERVER_ERROR",
                   msg |-> "failed to open requested file"])
       ELSE /\ ret' = [ret EXCEPT
                         !.contentType =
                             ContentType(Extension(arg.lib, Filename(arg.path)))]
            /\ pc' = "main_send_file"
    /\ UNCHANGED <<arg, err>>
    /\ UNCHANGED streamVars

\* Lines 707-741: the header of the file and its blocks.
MainSendFile ==
    /\ pc = "main_send_file"
    /\ IF arg.io = "stdout"
       THEN /\ ret' = [ret EXCEPT
                         !.sentHeader = TRUE,
                         !.exc = [code |-> "INTERNAL_SERVER_ERROR",
                                  msg |-> "failed to write to standard out"]]
            /\ pc' = "main_catch"
       ELSE /\ ret' = [ret EXCEPT
                         !.sentHeader = TRUE,
                         !.stdout = @ \o <<StatusLine(arg.protocol, "OK"),
                                           HeaderBlock(ret.contentType), Body("file")>>,
                         !.served = "file", !.exit = 0]
            /\ pc' = "main_exit"
    /\ UNCHANGED <<arg, err>>
    /\ UNCHANGED streamVars

\* Lines 743-765: the handlers write the error document unless the header
\* has been sent; main returns 1.
MainCatch ==
    /\ pc = "main_catch"
    /\ ret' = [ret EXCEPT
                 !.stdout = IF ret.sentHeader THEN @
                            ELSE @ \o writeErrorResponse(arg.protocol, ret.exc.code),
                 !.exit = 1]
    /\ pc' = "main_exit"
    /\ UNCHANGED <<arg, err>>
    /\ UNCHANGED streamVars

MainNext ==
    \/ MainValidate
    \/ MainDiskpath
    \/ MainDirectory
    \/ MainRegularFile
    \/ MainCutout
    \/ MainSendCutout
    \/ MainWholeFile
    \/ MainSendFile
    \/ MainCatch

MainSpec == MainInit /\ [][MainNext]_vars

\* The status lines standard output holds, in the order written.
StatusCodes(out) == [i \in 1..Len(SelectSeq(out, LAMBDA it : it.kind = "status")) |->
                        SelectSeq(out, LAMBDA it : it.kind = "status")[i].code]

\* C22: standard output carries exactly one HTTP response per request.
\* Nothing is written before the response is determined (the directory
\* listing is built, the cutout is complete in memory, the file is open or
\* the exception is caught), an error document is written only to an output
\* that is still empty and never after a 200 status line, and the 200 of a
\* cutout follows a streamer that ended well.
C22_OneResponse ==
    /\ ret.stdout # <<>> => pc = "main_exit"
    /\ (pc = "main_exit" /\ arg.io # "stdout") => Len(StatusCodes(ret.stdout)) = 1
    /\ \A i \in 1..Len(StatusCodes(ret.stdout)) :
           StatusCodes(ret.stdout)[i] # "OK" => i = 1
    /\ ret.served = "cutout" => arg.stream = "OK"

\* The paths the service is to refuse: ".." somewhere, or a leading '/'.
RefusedPath(path) ==
    \/ StrFind(path, <<".", ".">>, 0) # -1
    \/ (path # <<>> /\ Head(path) = "/")

\* C23: a listing, a file or a cutout is served only for a path without
\* ".." and without a leading '/'; every other path ends in BAD_REQUEST and
\* nothing on disk is examined for it.
C23_PathCheck ==
    /\ ret.served # "none" => ~RefusedPath(arg.path)
    /\ RefusedPath(arg.path) =>
           /\ ret.examined = {}
           /\ pc = "main_exit" => ret.exc.code = "BAD_REQUEST"

\* The text ends with the suffix.
HasSuffix(str, suffix) ==
    /\ Len(str) >= Len(suffix)
    /\ SubSeq(str, Len(str) - Len(suffix) + 1, Len(str)) = suffix

CarriesCutoutParams == arg.center # <<>> \/ arg.size # <<>> \/ arg.gzip # <<>>

\* C27: a request with a center, size or gzip parameter is never answered
\* with a directory listing or a whole file: main ends with a cutout or
\* with an error.  A cutout is served only for a regular file named *.fits
\* or *.fits.gz, with center and size given exactly once and gzip at most
\* once.
C27_CutoutParams ==
    /\ CarriesCutoutParams => ret.served \notin {"listing", "file"}
    /\ (CarriesCutoutParams /\ pc = "main_exit") =>
           \/ ret.served = "cutout" /\ ret.exit = 0
           \/ ret.served = "none" /\ ret.exit = 1 /\ ret.exc.code # "OK"
    /\ ret.served = "cutout" =>
           /\ is_regular_file(ret.diskpath)
           /\ \/ HasSuffix(arg.path, <<".", "f", "i", "t", "s">>)
              \/ HasSuffix(arg.path, <<".", "f", "i", "t", "s", ".", "g", "z">>)
           /\ Len(arg.center) = 1 /\ Len(arg.size) = 1 /\ Len(arg.gzip) <= 1

\* A cutout of i.fits.gz was served to a request that names gzip, and a
\* request with a center for a directory ended in an error.
C27_Witness ==
    /\ pc = "main_exit"
    /\ \/ /\ ret.served = "cutout" /\ arg.gzip = <<"0">>
          /\ HasSuffix(arg.path, <<".", "g", "z">>)
       \/ /\ is_directory(ret.diskpath) /\ arg.center # <<>>
          /\ ret.exc.code = "BAD_REQUEST"

\* The extension is one of the space separated words of the text of a table
\* entry (the entry "fits" read as ".fits").
ListsExtension(words, extension) ==
    LET text == IF Head(words) = "." THEN words ELSE <<".">> \o words
        n == Len(extension)
    IN  /\ n > 0
        /\ \E i \in 1..(Len(text) - n + 1) :
               /\ SubSeq(text, i, i + n - 1) = extension
               /\ (i = 1 \/ text[i - 1] = " ")
               /\ (i + n - 1 = Len(text) \/ text[i + n] = " ")
ListedType(extension) ==
    LET hits == {i \in 1..Len(getContentTypes) :
                    ListsExtension(getContentTypes[i][1], extension)}
    IN  IF hits = {} THEN "application/octet-stream"
        ELSE getContentTypes[CHOOSE i \in hits : \A j \in hits : i <= j][2]

\* The text of a file name from its last dot on, empty without a dot.
NameSuffix(fname) ==
    IF LastIndex(fname, ".") = 0 THEN <<>>
    ELSE SubSeq(fname, LastIndex(fname, "."), Len(fname))

\* C28: a whole file is sent with the MIME type of the table entry that
\* lists the extension of its name, and as application/octet-stream when no
\* entry lists it or the name has no extension.
C28_ContentType ==
    ret.served = "file" =>
        /\ ret.contentType = ListedType(NameSuffix(Filename(arg.path)))
        /\ ret.stdout[Len(ret.stdout) - 1] = HeaderBlock(ret.contentType)

\* The search has returned: no conversion failed on the way.
SearchDone == pc = "search_ret" /\ ret.st.code = "OK"
\* return pixcen (p[dim])
SearchValue == pixcen(ret.st.p[arg.dim])

\* The point of the searched axis at exactly the size argument from the
\* center, in eighths of a pixel (size2 is twice the size argument, and the
\* plate has one arc second per pixel).
ExactBoundary == 2 * arg.pix[arg.dim] + arg.dir * arg.size2

Separation(n) == arg.dir * (8 * n - 2 * arg.pix[arg.dim])

CutoutHdus ==
    {[ext_type |-> "image", naxes |-> nx, sky |-> w] :
        nx \in {<<>>, <<4>>, <<4, 4>>, <<0, 4>>, <<4, 4, 2>>}, w \in BOOLEAN}
    \cup {[ext_type |-> t, naxes |-> <<>>, sky |-> FALSE] :
             t \in {"ascii_table", "binary_table"}}
CutoutSources == {<<h>> : h \in CutoutHdus} \cup {<<g, h>> : g, h \in CutoutHdus}

\* The test of lines 117-119: not an image, fewer than two axes, or an axis
\* of length zero.
PureCopy(h) ==
    \/ h.ext_type # "image"
    \/ Len(h.naxes) < 2
    \/ \E i \in 1..Len(h.naxes) : h.naxes[i] = 0

MakeCutoutInit ==
    /\ NoStream
    /\ arg \in {[source |-> s] : s \in CutoutSources}
    /\ ret = [n |-> 1, dest |-> <<>>, ops |-> <<>>, code |-> "OK"]
    /\ pc = "make_cutout"
    /\ err = NoErr

\* dest.copy_hdu (source_hdu): the HDU is appended to the destination.
copy_hdu(r, n) ==
    [r EXCEPT !.dest = Append(@, [hdu |-> n, how |-> "copy"]),
              !.ops = Append(@, [hdu |-> n, op |-> "copy_hdu"])]

\* Lines 124-129: the set-up of the celestial WCS of the HDU.
WcsSetup(r, n) == [r EXCEPT !.ops = Append(@, [hdu |-> n, op |-> "wcs_setup"])]

\* Lines 137-222: the bounds, the subset of the source and the new image
\* HDU.  For an HDU without two axes of positive length the subset cannot
\* be read (dest_naxes is indexed past its end, or the image is empty): the
\* call ends in an exception or with whatever HDU it has written.
Cutout(r, n, outcome) ==
    IF outcome = "image"
    THEN [r EXCEPT !.dest = Append(@, [hdu |-> n, how |-> "cutout"]),
                   !.ops = Append(@, [hdu |-> n, op |-> "cutout"])]
    ELSE [r EXCEPT !.ops = Append(@, [hdu |-> n, op |-> "cutout"]),
                   !.code = "INTERNAL_SERVER_ERROR"]

\* make_cutout (source_hdu, dest, center, radius), lines 111-223, for the
\* next HDU of the loop of lines 105-109.
make_cutout(r, h, outcome) ==
    LET copied == IF PureCopy(h) THEN copy_hdu(r, r.n) ELSE r
        setup == WcsSetup(copied, r.n)
    IN  IF ~h.sky THEN copy_hdu(setup, r.n)
        ELSE Cutout(setup, r.n, outcome)

MakeCutoutHdu ==
    /\ pc = "make_cutout"
    /\ ret.n <= Len(arg.source)
    /\ ret.code = "OK"
    /\ \E outcome \in IF PureCopy(arg.source[ret.n]) THEN {"image", "exception"}
                      ELSE {"image"} :
          \E r \in {make_cutout(ret, arg.source[ret.n], outcome)} :
             ret' = [r EXCEPT !.n = ret.n + 1]
    /\ UNCHANGED <<arg, pc, err>>
    /\ UNCHANGED streamVars

\* The loop is over, or an exception has left it.
MakeCutoutReturn ==
    /\ pc = "make_cutout"
    /\ ret.n > Len(arg.source) \/ ret.code # "OK"
    /\ pc' = "make_cutout_ret"
    /\ UNCHANGED <<arg, ret, err>>
    /\ UNCHANGED streamVars

MakeCutoutNext == MakeCutoutHdu \/ MakeCutoutReturn

MakeCutoutSpec == MakeCutoutInit /\ [][MakeCutoutNext]_vars

\* What was done for HDU n of the source, in order.
OpsOf(n) == SelectSeq(ret.ops, LAMBDA o : o.hdu = n)

\* C29: an HDU that is not an image, has fewer than two axes or has an axis
\* of length zero is copied to the destination exactly once, with no WCS
\* set-up and no cutout; when make_cutout has gone through the file, the
\* destination holds one HDU per source HDU, in the order of the source.
C29_PureCopyOnce ==
    /\ \A n \in 1..(ret.n - 1) :
           PureCopy(arg.source[n]) => OpsOf(n) = <<[hdu |-> n, op |-> "copy_hdu"]>>
    /\ (pc = "make_cutout_ret" /\ ret.code = "OK") =>
           /\ Len(ret.dest) = Len(arg.source)
           /\ \A i \in 1..Len(ret.dest) : ret.dest[i].hdu = i

\* ------------------------------------------------------------------------
\* GZIPWriter (GZIPWriter.cxx): deflate in front of another Writer.
\* The bytes zlib produces are numbered 1, 2, ... in the order it produces
\* them.  zlib holds `pending` bytes it has produced but not yet put into
\* the output buffer; the buffer holds the bytes between next_out's start
\* and next_out (avail_out = chunk_size - Len(buffer)).
\* ------------------------------------------------------------------------

MaxWrites == 3      \* write calls before finish
MaxWriteLen == 2    \* bytes per write call
MaxGain == 2        \* bytes zlib may produce in one call of deflate

\* The bytes numbered from + 1 .. from + n.
Produced(from, n) == [i \in 1..n |-> from + i]

\* flush_pending of zlib: as many pending bytes as the buffer has room for
\* move into it.
FlushPending(z) ==
    LET n == Min(z.pending, z.chunk_size - Len(z.buffer))
    IN  [z EXCEPT !.buffer = @ \o Produced(z.moved, n),
                  !.moved = @ + n, !.pending = @ - n]

\* deflate (&stream_, Z_NO_FLUSH) that takes c bytes of input and turns
\* them into g bytes of output.
deflate(z, c, g) ==
    FlushPending([z EXCEPT !.avail_in = @ - c, !.pending = @ + g])

\* What one call may do: zlib produces output from input only and returns
\* when the input is used up or the output buffer is full.
DeflateChoices(z) ==
    {cg \in (0..z.avail_in) \X (0..MaxGain) :
        /\ cg[1] > 0 \/ (z.pending > 0 /\ cg[2] = 0)
        /\ \/ deflate(z, cg[1], cg[2]).avail_in = 0
           \/ Len(deflate(z, cg[1], cg[2]).buffer) = z.chunk_size}

\* deflate (&stream_, Z_FINISH): the first call adds the trailer (g bytes);
\* Z_STREAM_END once nothing is pending.
deflateFinish(z, g) ==
    FlushPending([z EXCEPT !.pending = @ + (IF z.trailer THEN 0 ELSE g),
                           !.trailer = TRUE])

\* writer_->write (buffer_.data (), n), then the buffer starts again.
ForwardMutWholeBuffer(z, n) ==
    [z EXCEPT !.log = Append(@, [i \in 1..z.chunk_size |->
                                    IF i <= Len(z.buffer) THEN z.buffer[i] ELSE 0]),
              !.buffer = <<>>]
Forward(z, n) ==
    [z EXCEPT !.log = Append(@, SubSeq(z.buffer, 1, n)),
              !.buffer = <<>>]

GzInit ==
    /\ NoStream
    /\ arg \in {[chunk_size |-> cs] : cs \in {2, 3}}
    /\ ret = [chunk_size |-> arg.chunk_size, buffer |-> <<>>, avail_in |-> 0,
              pending |-> 0, moved |-> 0, trailer |-> FALSE, log |-> <<>>,
              writes |-> 0, in_write |-> 0, finished |-> 0]
    /\ pc = "gz_idle"
    /\ err = NoErr

\* write (buf, len): nothing for an empty buffer, the loop otherwise.
GzWrite ==
    /\ pc = "gz_idle"
    /\ ret.writes < MaxWrites
    /\ \E len \in 0..MaxWriteLen :
          IF len = 0
          THEN /\ ret' = [ret EXCEPT !.writes = @ + 1]
               /\ pc' = "gz_idle"
          ELSE /\ ret' = [ret EXCEPT !.writes = @ + 1, !.avail_in = len]
               /\ pc' = "gz_write"
    /\ UNCHANGED <<arg, err>>
    /\ UNCHANGED streamVars

\* One pass of the do-while loop of write, lines 36-54.
GzWriteLoop ==
    /\ pc = "gz_write"
    /\ \E cg \in DeflateChoices(ret) :
          \E z \in {deflate(ret, cg[1], cg[2])} :
             IF Len(z.buffer) # z.chunk_size
             THEN /\ ret' = z
                  /\ pc' = "gz_idle"
             ELSE /\ ret' = [Forward(z, z.chunk_size) EXCEPT !.in_write = @ + 1]
                  /\ pc' = IF z.avail_in # 0 THEN "gz_write" ELSE "gz_idle"
    /\ UNCHANGED <<arg, err>>
    /\ UNCHANGED streamVars

\* finish (), lines 58-62: a full buffer is written out first.
GzFinish ==
    /\ pc = "gz_idle"
    /\ ret' = IF Len(ret.buffer) = ret.chunk_size
              THEN Forward(ret, ret.chunk_size) ELSE ret
    /\ pc' = "gz_finish"
    /\ UNCHANGED <<arg, err>>
    /\ UNCHANGED streamVars

\* One pass of the loop of finish, lines 63-80, and after Z_STREAM_END the
\* finish of the wrapped writer, line 81.
GzFinishLoop ==
    /\ pc = "gz_finish"
    /\ \E g \in 1..MaxGain :
          \E z \in {deflateFinish(ret, g)} :
             IF z.pending = 0
             THEN /\ ret' = [Forward(z, Len(z.buffer)) EXCEPT !.finished = @ + 1]
                  /\ pc' = "gz_done"
             ELSE /\ ret' = Forward(z, z.chunk_size)
                  /\ pc' = "gz_finish"
    /\ UNCHANGED <<arg, err>>
    /\ UNCHANGED streamVars

GzNext == GzWrite \/ GzWriteLoop \/ GzFinish \/ GzFinishLoop

GzSpec == GzInit /\ [][GzNext]_vars

\* The loops of write and finish are sequential code: a call that has
\* started runs on.
GzFairSpec == GzSpec /\ WF_vars(GzNext)

\* The blocks handed to the wrapped writer, one after the other.
RECURSIVE Forwarded(_)
Forwarded(blocks) == IF blocks = <<>> THEN <<>> ELSE Head(blocks) \o Forwarded(Tail(blocks))

\* C30: the writes of a GZIPWriter followed by one finish are one gzip
\* stream.  While write runs, the wrapped writer receives blocks of exactly
\* chunk_size bytes; finish hands over what is left, full chunks and then
\* one last block of at most chunk_size bytes, and calls the finish of the
\* wrapped writer once, as the last thing.  The bytes handed over are the
\* bytes deflate produced, in order: none lost, repeated or left behind.
C30_Safety ==
    /\ Forwarded(ret.log) \o ret.buffer = Produced(0, ret.moved)
    /\ ret.finished = (IF pc = "gz_done" THEN 1 ELSE 0)
    /\ \A i \in 1..Len(ret.log) :
           \/ Len(ret.log[i]) = ret.chunk_size
           \/ pc = "gz_done" /\ i = Len(ret.log) /\ Len(ret.log[i]) < ret.chunk_size
    /\ ret.in_write > 0 => Len(ret.log) >= ret.in_write
    /\ pc = "gz_done" => ret.pending = 0 /\ ret.buffer = <<>> /\ ret.avail_in = 0
C30_GzipStream ==
    /\ [](C30_Safety)
    /\ [][pc = "gz_done" => pc' = "gz_done"]_vars
    /\ (pc = "gz_finish") ~> (pc = "gz_done")

\* A stream of three writes that sent a chunk during write and ended with a
\* short last block.
C30_Witness ==
    /\ pc = "gz_done"
    /\ ret.writes = MaxWrites
    /\ ret.in_write >= 1
    /\ Len(ret.log) >= 3
    /\ Len(ret.log[Len(ret.log)]) < ret.chunk_size

====
